---- MODULE Spec2Model ----
(***************************************************************************)
(* Electron-pushing engine of the organic-Chemistry demo: MoleculeInfo     *)
(* (electron accounting over the molecular graph) and BondManipulator      *)
(* (charge ledger, bond transitions, the four electron moves).             *)
(*                                                                         *)
(* Progress is counted in increments of 0.005 (line 473): the value the    *)
(* code stores is min(0.005 * count, 1).  In IEEE doubles the 200th        *)
(* addition is the first that reaches 1, so the code needs 200 increments; *)
(* StepsToFull scales that number down.                                    *)
(*                                                                         *)
(* A frame (Tick) runs every animate callback that requestAnimationFrame   *)
(* has queued, in registration order; callbacks queued while the frame     *)
(* runs are run by the next frame.                                         *)
(***************************************************************************)
EXTENDS Integers, Sequences, FiniteSets, TLC

\* ------------------------------------------------------------------ bounds
MaxMoves == 2
MaxLiveMoves == 1
StepsToFull == 4
MaxBonds == 4

\* ------------------------------------------------- the molecular graph (OCL)
\* Graphs the structure parser delivers after addImplicitHydrogens():
\* every hydrogen is an explicit atom, so getImplicitHydrogens is 0.
\* The hydrogens follow the heavy atoms, in the order of their parents.
Molecules == {"O=C=O", "[O-]C#N", "O", "C#N"}

\* the molecules of the accounting checks: methane, chloromethane, ethanol
\* (the demo's second molecule), water, ammonia, formaldehyde, hydrogen
\* sulfide (sulfur is not in the valence table), and a graph of two carbons
\* whose one bond the library reports with order 0 and the aromatic flag
AccountingMolecules == {"C", "CCl", "CCO", "O", "N", "C=O", "S", "c:c"}

\* the two molecules chem.html adds, in the order it adds them:
\* nitrobenzene and ethanol
PageMolecules == <<"c1ccc(cc1)[N+](=O)[O-]", "CCO">>

getAtomLabel(m) ==
  CASE m = "O=C=O"   -> <<"O", "C", "O">>
    [] m = "[O-]C#N" -> <<"O", "C", "N">>
    [] m = "O"       -> <<"O", "H", "H">>
    [] m = "C#N"     -> <<"C", "N", "H">>
    [] m = "C"       -> <<"C", "H", "H", "H", "H">>
    [] m = "CCl"     -> <<"C", "Cl", "H", "H", "H">>
    [] m = "CCO"     -> <<"C", "C", "O", "H", "H", "H", "H", "H", "H">>
    [] m = "N"       -> <<"N", "H", "H", "H">>
    [] m = "C=O"     -> <<"C", "O", "H", "H">>
    [] m = "S"       -> <<"S", "H", "H">>
    [] m = "c:c"     -> <<"C", "C">>
    [] m = "c1ccc(cc1)[N+](=O)[O-]" ->
         <<"C", "C", "C", "C", "C", "C", "N", "O", "O",
           "H", "H", "H", "H", "H">>
    \* no molecule parsed
    [] m = "none"    -> <<>>

getAtomCount(m) == Len(getAtomLabel(m))

AtomsOf(m) == 0 .. (getAtomCount(m) - 1)

\* the atoms the identifiers of the moves name: those of the three-atom
\* molecules, the first three atoms of a larger one
Atoms == UNION {AtomsOf(m) : m \in Molecules}

getFormalCharge(m) ==
  CASE m = "[O-]C#N" -> [i \in AtomsOf(m) |-> IF i = 0 THEN -1 ELSE 0]
    [] m = "c1ccc(cc1)[N+](=O)[O-]" ->
         [i \in AtomsOf(m) |-> IF i = 6 THEN 1 ELSE IF i = 8 THEN -1 ELSE 0]
    [] OTHER         -> [i \in AtomsOf(m) |-> 0]

\* bond table of the parsed molecule: <<lo, hi>> |-> order
InitialBonds(m) ==
  CASE m = "O=C=O"   -> (<<0, 1>> :> 2) @@ (<<1, 2>> :> 2)
    [] m = "[O-]C#N" -> (<<0, 1>> :> 1) @@ (<<1, 2>> :> 3)
    [] m = "O"       -> (<<0, 1>> :> 1) @@ (<<0, 2>> :> 1)
    [] m = "C#N"     -> (<<0, 1>> :> 3) @@ (<<0, 2>> :> 1)
    [] m = "C"       -> [k \in {<<0, 1>>, <<0, 2>>, <<0, 3>>, <<0, 4>>} |-> 1]
    [] m = "CCl"     -> [k \in {<<0, 1>>, <<0, 2>>, <<0, 3>>, <<0, 4>>} |-> 1]
    [] m = "CCO"     -> [k \in {<<0, 1>>, <<1, 2>>, <<0, 3>>, <<0, 4>>,
                                <<0, 5>>, <<1, 6>>, <<1, 7>>, <<2, 8>>} |-> 1]
    [] m = "N"       -> [k \in {<<0, 1>>, <<0, 2>>, <<0, 3>>} |-> 1]
    [] m = "C=O"     -> (<<0, 1>> :> 2) @@ (<<0, 2>> :> 1) @@ (<<0, 3>> :> 1)
    [] m = "S"       -> (<<0, 1>> :> 1) @@ (<<0, 2>> :> 1)
    [] m = "c:c"     -> (<<0, 1>> :> 0)
    [] m = "c1ccc(cc1)[N+](=O)[O-]" ->
         [k \in {<<0, 1>>, <<2, 3>>, <<4, 5>>, <<6, 7>>} |-> 2]
         @@ [k \in {<<1, 2>>, <<3, 4>>, <<0, 5>>, <<3, 6>>, <<6, 8>>,
                    <<0, 9>>, <<1, 10>>, <<2, 11>>, <<4, 12>>, <<5, 13>>}
               |-> 1]
    [] m = "none"    -> [k \in {} |-> 0]

getImplicitHydrogens(m, i) == 0

\* the bonds molecule.isAromaticBond flags
AromaticBonds(m) ==
  CASE m = "c:c" -> {<<0, 1>>}
    [] m = "c1ccc(cc1)[N+](=O)[O-]" ->
         {<<0, 1>>, <<1, 2>>, <<2, 3>>, <<3, 4>>, <<4, 5>>, <<0, 5>>}
    [] OTHER -> {}

isAromaticBond(m, bondIndex) == bondIndex \in AromaticBonds(m)

valenceElectrons ==
  [s \in {"H", "C", "N", "O", "F", "Cl", "Br", "I"} |->
     CASE s = "H" -> 1 [] s = "C" -> 4 [] s = "N" -> 5 [] s = "O" -> 6
       [] OTHER -> 7]

\* ------------------------------------------------------------------- state
VARIABLES
  molecule,         \* the SMILES the graph was parsed from
  bondOrder,        \* graph: <<lo, hi>> |-> order, one entry per bond
  lonePairs,        \* MoleculeInfo.lonePairs
  singleElectrons,  \* MoleculeInfo.singleElectrons
  charges,          \* BondManipulator.charges (the ledger): integer entries
  nanCharges,       \* the keys of the ledger whose entry is NaN
  bondTransitions,  \* BondManipulator.bondTransitions: key |-> entry
  rafQueue,         \* animate closures queued by requestAnimationFrame
  others,           \* MoleculeRenderer.moleculeMap: the molecules added
                    \*          after the first, each with its manipulator
  moleculeIds,      \* Actions.moleculeIds: the ids pushed, as map indices
  detached,         \* the molecule and manipulator pairs updateMolecule took
                    \*          out of the map while closures of theirs were
                    \*          queued
  currentStep,      \* chem.html: index of the next canned step
  stateHistory,     \* chem.html: one snapshot per step taken, and the first
  previousButton,   \* chem.html: previousButton.disabled
  nextButton,       \* chem.html: nextButton.disabled
  thrown,           \* the handler or frame that ran last ended in an
                    \*          exception nothing caught
  last,             \* history: the last move invoked, the state before it,
                    \*          and (for direct starts) the record before
  movesLeft         \* history: number of moves still to be invoked

vars == <<molecule, bondOrder, lonePairs, singleElectrons, charges,
          nanCharges, bondTransitions, rafQueue, others, moleculeIds,
          detached,
          currentStep, stateHistory, previousButton, nextButton, thrown,
          last, movesLeft>>

\* ----------------------------------------------------------------- helpers
Min(a, b) == IF a < b THEN a ELSE b

Max(a, b) == IF a < b THEN b ELSE a

\* `${Math.min(atom1, atom2)}-${Math.max(atom1, atom2)}`
bondKey(atom1, atom2) == <<Min(atom1, atom2), Max(atom1, atom2)>>

Keys == {bondKey(a, b) : a \in Atoms, b \in Atoms}

MapDelete(m, k) == [x \in (DOMAIN m) \ {k} |-> m[x]]

MapSet(m, k, v) == (k :> v) @@ m

\* A JavaScript number that is a whole number of halves: an integer when it
\* is whole, and otherwise the record of its halves (1.5 is [halves |-> 3]).
OneAndAHalf == [halves |-> 3]

\* the whole numbers the accounting meets, as they print
WholeNumbers == {ToString(n) : n \in -64 .. 64}

Halves(x) == IF ToString(x) \in WholeNumbers THEN 2 * x ELSE x.halves

FromHalves(h) == IF h % 2 = 0 THEN h \div 2 ELSE [halves |-> h]

\* JavaScript %: the result takes the sign of the dividend
JSRem(n, d) == IF n >= 0 THEN n % d ELSE -((-n) % d)

\* Math.floor(n / d) for d > 0
JSFloorDiv(n, d) == n \div d

\* the identifiers of the moves: "a-b" and "a-b-c" naming distinct atoms
Pairs == {<<a, b>> : a \in Atoms, b \in Atoms} \ {<<a, a>> : a \in Atoms}

Paths ==
  {<<a, b, c>> : a \in Atoms, b \in Atoms, c \in Atoms} \
    {p \in Atoms \X Atoms \X Atoms : p[1] = p[2] \/ p[2] = p[3] \/ p[1] = p[3]}

\* atom indices an identifier can name: the atoms and one index past them
Indices == Atoms \cup {Cardinality(Atoms)}

RECURSIVE SumOver(_, _)
SumOver(f, S) ==
  IF S = {} THEN 0
  ELSE LET x == CHOOSE y \in S : TRUE IN f[x] + SumOver(f, S \ {x})

\* bondOrders.reduce((sum, order) => sum + order, 0), counted in halves
RECURSIVE SumHalves(_, _)
SumHalves(f, S) ==
  IF S = {} THEN 0
  ELSE LET x == CHOOSE y \in S : TRUE
       IN  Halves(f[x]) + SumHalves(f, S \ {x})

\* ------------------------------------------------------------ MoleculeInfo
NoBond == <<-1, -1>>

findBondIndex(bo, atom1, atom2) ==
  IF bondKey(atom1, atom2) \in DOMAIN bo THEN bondKey(atom1, atom2) ELSE NoBond

getBondOrder(bo, atom1, atom2) ==
  LET bondIndex == findBondIndex(bo, atom1, atom2)
  IN  IF bondIndex # NoBond THEN bo[bondIndex] ELSE 0

\* mutant: a pair without a bond gets one
setBondOrder_creates(bo, atom1, atom2, newOrder) ==
  MapSet(bo, bondKey(atom1, atom2), newOrder)

setBondOrder(bo, atom1, atom2, newOrder) ==
  LET bondIndex == findBondIndex(bo, atom1, atom2)
  IN  IF bondIndex # NoBond THEN [bo EXCEPT ![bondIndex] = newOrder] ELSE bo

\* the atoms getConnAtom(i, 0 .. getAllConnAtoms(i) - 1) enumerates
ConnAtoms(bo, i) ==
  {k[2] : k \in {x \in DOMAIN bo : x[1] = i}} \cup
  {k[1] : k \in {x \in DOMAIN bo : x[2] = i}}

getExplicitHydrogens(m, bo, i) ==
  Cardinality({j \in ConnAtoms(bo, i) : getAtomLabel(m)[j + 1] = "H"})

\* the orders of the bonds of atom i, as a function of the neighbour
\* (an order 0 on a bond flagged aromatic is delivered as 1.5)
getBondOrdersForAtom(m, bo, i) ==
  [j \in ConnAtoms(bo, i) |->
     LET bondIndex == findBondIndex(bo, i, j)
     IN  IF bo[bondIndex] = 0 /\ isAromaticBond(m, bondIndex)
         THEN OneAndAHalf ELSE bo[bondIndex]]

\* what calculateLonePairs returns and what it stores with setSingleElectron;
\* for an unknown symbol it returns 0 and stores nothing
\* the bond-order sum of calculateLonePairs (lines 236-240)
\* mutant: the hydrogens are never left out of the sum
totalBondOrder_always(atomSymbol, bondOrders, implicitHydrogens) ==
  FromHalves(SumHalves(bondOrders, DOMAIN bondOrders) + 2 * implicitHydrogens)

totalBondOrder(atomSymbol, bondOrders, implicitHydrogens) ==
  LET sum == SumHalves(bondOrders, DOMAIN bondOrders)
  IN  IF atomSymbol # "C" /\ implicitHydrogens > 0
      THEN FromHalves(sum) ELSE FromHalves(sum + 2 * implicitHydrogens)

\* mutant: an element missing from the table is given carbon's valence
calculateLonePairs_assumesCarbon(atomSymbol, formalCharge, bondOrders, implicitHydrogens) ==
  LET valence == IF atomSymbol \in DOMAIN valenceElectrons
                 THEN valenceElectrons[atomSymbol]
                 ELSE valenceElectrons["C"]
      nonBondingElectrons ==
        2 * valence
          - Halves(totalBondOrder(atomSymbol, bondOrders, implicitHydrogens))
          + 2 * formalCharge
  IN  [lonePairs |-> Max(0, JSFloorDiv(nonBondingElectrons, 4)),
       stored |-> TRUE,
       singleElectrons |-> FromHalves(JSRem(nonBondingElectrons, 4))]

calculateLonePairs(atomSymbol, formalCharge, bondOrders, implicitHydrogens) ==
  IF atomSymbol \notin DOMAIN valenceElectrons
  THEN [lonePairs |-> 0, stored |-> FALSE, singleElectrons |-> 0]
  ELSE LET valence == valenceElectrons[atomSymbol]
           \* valence - totalBondOrder + formalCharge, counted in halves
           nonBondingElectrons ==
             2 * valence
               - Halves(totalBondOrder(atomSymbol, bondOrders,
                                       implicitHydrogens))
               + 2 * formalCharge
       IN  [lonePairs |-> Max(0, JSFloorDiv(nonBondingElectrons, 4)),
            stored |-> TRUE,
            singleElectrons |-> FromHalves(JSRem(nonBondingElectrons, 4))]

\* the accounting of atom i as initializeLonePairs runs it
Accounting(m, bo, i) ==
  calculateLonePairs(getAtomLabel(m)[i + 1], getFormalCharge(m)[i],
                     getBondOrdersForAtom(m, bo, i),
                     getImplicitHydrogens(m, i) + getExplicitHydrogens(m, bo, i))

initializeLonePairs(m, bo) ==
  [i \in AtomsOf(m) |-> Accounting(m, bo, i).lonePairs]

\* the singleElectrons dictionary after initializeLonePairs
InitialSingleElectrons(m, bo) ==
  [i \in {j \in AtomsOf(m) : Accounting(m, bo, j).stored} |->
     Accounting(m, bo, i).singleElectrons]

getLonePairs(lp, atomIndex) ==
  IF atomIndex \in DOMAIN lp /\ lp[atomIndex] # 0 THEN lp[atomIndex] ELSE 0

\* x + 1 for a whole or half number x
PlusOne(x) == FromHalves(Halves(x) + 2)

getSingleElectron(se, atomIndex) ==
  IF atomIndex \in DOMAIN se /\ Halves(se[atomIndex]) # 0
  THEN se[atomIndex] ELSE 0

setSingleElectron(se, atomIndex, count) == MapSet(se, atomIndex, count)

\* --------------------------------------------------------- BondManipulator
\* The mutable state, as one record, so that a handler's calls compose.
\* A handler starts with no exception in flight; thrown becomes TRUE when a
\* call throws, and the callers return at once.  shown tells that the
\* molecule in the state's own fields is an entry of the renderer's
\* moleculeMap, which it is between the handlers.
State ==
  [molecule |-> molecule,
   bondOrder |-> bondOrder, lonePairs |-> lonePairs,
   singleElectrons |-> singleElectrons, charges |-> charges,
   nanCharges |-> nanCharges,
   bondTransitions |-> bondTransitions, rafQueue |-> rafQueue,
   others |-> others, moleculeIds |-> moleculeIds,
   detached |-> detached, shown |-> TRUE,
   thrown |-> FALSE]

\* the constructor's ledger: one entry per atom, the graph's formal charge
InitialCharges(m) == [i \in AtomsOf(m) |-> getFormalCharge(m)[i]]

\* JavaScript values a ledger read can deliver: a number, NaN or undefined
Number(n) == [type |-> "number", value |-> n]

NaN == [type |-> "NaN", value |-> 0]

undefined == [type |-> "undefined", value |-> 0]

\* x + n and x - n for an integer n: undefined and NaN both give NaN
JSAdd(x, n) == IF x.type = "number" THEN Number(x.value + n) ELSE NaN

\* x < n: false when x is undefined or NaN
JSLess(x, n) == x.type = "number" /\ x.value < n

\* this.charges.get(atomIndex)
chargesGet(S, atomIndex) ==
  IF atomIndex \in DOMAIN S.charges THEN Number(S.charges[atomIndex])
  ELSE IF atomIndex \in S.nanCharges THEN NaN
  ELSE undefined

\* this.charges.set(atomIndex, v) for v a number or NaN
chargesSet(S, atomIndex, v) ==
  IF v.type = "number"
  THEN [S EXCEPT !.charges = MapSet(@, atomIndex, v.value),
                 !.nanCharges = @ \ {atomIndex}]
  ELSE [S EXCEPT !.charges = MapDelete(@, atomIndex),
                 !.nanCharges = @ \cup {atomIndex}]

\* the class defines getCharge twice; the later definition (line 500) wins
getCharge(S, atomIndex) == chargesGet(S, atomIndex)

\* mutant: the change is stored instead of being added
updateCharge_overwrites(S, atomIndex, change) ==
  chargesSet(S, atomIndex, Number(change))

updateCharge(S, atomIndex, change) ==
  LET currentCharge == chargesGet(S, atomIndex)
  IN  chargesSet(S, atomIndex, JSAdd(currentCharge, change))

getBondTransitionProgress(S, atom1, atom2) ==
  IF bondKey(atom1, atom2) \in DOMAIN S.bondTransitions
  THEN <<S.bondTransitions[bondKey(atom1, atom2)]>> ELSE <<>>

\* mutant: every bond is drawn, a transitioning one included
renderMolecules_draws(S) == S

\* the graph of the molecule has a bond with a transition entry
Transitioning(mol) ==
  \E bondIndex \in DOMAIN mol.bondOrder :
    bondIndex \in DOMAIN mol.bondTransitions

\* MoleculeRenderer.renderMolecules with the renderer class Actions builds:
\* drawBond reaches, for a bond of the graph that has a transition entry,
\* drawMovingElectrons and there getAtomPosition, which reads the length of
\* this.atoms, a field no code defines: TypeError.  The loop draws every
\* molecule of moleculeMap, so a transition of any of them throws; a pair
\* that updateMolecule took out of the map is not drawn.
\* (x ranges over the one state S, so that S is computed once)
renderMolecules(S) ==
  CHOOSE drawn \in
    {IF \/ x.shown /\ Transitioning(x)
        \/ \E j \in DOMAIN x.others :
             x.others[j].shown /\ Transitioning(x.others[j])
        \/ \E k \in DOMAIN x.detached :
             x.detached[k].shown /\ Transitioning(x.detached[k])
     THEN [x EXCEPT !.thrown = TRUE]
     ELSE x : x \in {S}} : TRUE

\* a MoleculeInfo parsed from a string that denotes graph m with the bond
\* orders bo, and the BondManipulator constructed on it
Parsed(m, bo) ==
  [molecule |-> m, bondOrder |-> bo,
   lonePairs |-> initializeLonePairs(m, bo),
   singleElectrons |-> InitialSingleElectrons(m, bo),
   charges |-> InitialCharges(m), nanCharges |-> {},
   bondTransitions |-> [k \in {} |-> 0], shown |-> TRUE]

\* the entry of moleculeMap the state holds in its own fields
MoleculeFields(S) ==
  [molecule |-> S.molecule, bondOrder |-> S.bondOrder,
   lonePairs |-> S.lonePairs, singleElectrons |-> S.singleElectrons,
   charges |-> S.charges, nanCharges |-> S.nanCharges,
   bondTransitions |-> S.bondTransitions, shown |-> S.shown]

\* number of entries of moleculeMap
mapSize(S) == IF S.molecule = "none" THEN 0 ELSE 1 + Len(S.others)

\* moleculeMap.set for the entry at position index of the map; a negative
\* index -k is the k-th pair taken out of the map
PutMolecule(S, index, mol) ==
  IF index = 0
  THEN [S EXCEPT !.molecule = mol.molecule, !.bondOrder = mol.bondOrder,
                 !.lonePairs = mol.lonePairs,
                 !.singleElectrons = mol.singleElectrons,
                 !.charges = mol.charges, !.nanCharges = mol.nanCharges,
                 !.bondTransitions = mol.bondTransitions,
                 !.shown = mol.shown]
  ELSE IF index < 0
  THEN [S EXCEPT !.detached[-index] = mol]
  ELSE IF index \in DOMAIN S.others
  THEN [S EXCEPT !.others[index] = mol]
  ELSE [S EXCEPT !.others = Append(@, mol)]

\* the closures of a queue with manipulators 0 and i named for each other
RECURSIVE Relabel(_, _)
Relabel(queue, i) ==
  IF queue = <<>> THEN <<>>
  ELSE <<[Head(queue) EXCEPT !.manipulator =
            IF @ = 0 THEN i ELSE IF @ = i THEN 0 ELSE @]>>
       \o Relabel(Tail(queue), i)

\* the pair at position i: an entry of the map, or for a negative i a
\* pair taken out of it
pairAt(S, i) ==
  IF i = 0 THEN MoleculeFields(S)
  ELSE IF i < 0 THEN S.detached[-i]
  ELSE S.others[i]

\* The same program state with pair i held in the state's own fields and
\* the first entry of the map in its place: the methods of a
\* BondManipulator are written for the state's own fields, and a call on
\* the manipulator of pair i is the call between two exchanges.
Swap(S, i) ==
  IF i = 0 THEN S
  ELSE CHOOSE swapped \in
         {[PutMolecule(PutMolecule(x, 0, pairAt(x, i)), i, MoleculeFields(x))
             EXCEPT !.rafQueue = Relabel(@, i)] : x \in {S}} : TRUE

\* mutant: the completing run commits the order but forgets to delete the entry
animate_keepsEntry(S, c) ==
  IF c.key \notin DOMAIN S.bondTransitions THEN S
  ELSE renderMolecules(
       LET transitionInfo ==
             [S.bondTransitions[c.key] EXCEPT
                !.progress = Min(@ + 1, StepsToFull)]
       IN  IF transitionInfo.progress < StepsToFull
           THEN [S EXCEPT
                   !.bondTransitions = MapSet(@, c.key, transitionInfo),
                   !.rafQueue = Append(@, c)]
           ELSE [S EXCEPT
                   !.bondOrder = setBondOrder(@, c.atom1, c.atom2,
                                              transitionInfo.targetOrder),
                   !.bondTransitions = MapSet(@, c.key, transitionInfo)])

\* mutant: the completing run also moves a unit of charge between the atoms
animate_shiftsCharge(S, c) ==
  IF c.key \notin DOMAIN S.bondTransitions THEN S
  ELSE renderMolecules(
       LET transitionInfo ==
             [S.bondTransitions[c.key] EXCEPT
                !.progress = Min(@ + 1, StepsToFull)]
       IN  IF transitionInfo.progress < StepsToFull
           THEN [S EXCEPT
                   !.bondTransitions = MapSet(@, c.key, transitionInfo),
                   !.rafQueue = Append(@, c)]
           ELSE [S EXCEPT
                   !.bondOrder = setBondOrder(@, c.atom1, c.atom2,
                                              transitionInfo.targetOrder),
                   !.charges = [@ EXCEPT ![c.atom1] = @ + 1, ![c.atom2] = @ - 1],
                   !.bondTransitions = MapDelete(@, c.key)])

\* mutant: the run that reaches full progress re-queues instead of committing
animate_neverDone(S, c) ==
  IF c.key \notin DOMAIN S.bondTransitions THEN S
  ELSE renderMolecules(
       LET transitionInfo ==
             [S.bondTransitions[c.key] EXCEPT
                !.progress = Min(@ + 1, StepsToFull)]
       IN  IF transitionInfo.progress <= StepsToFull
           THEN [S EXCEPT
                   !.bondTransitions = MapSet(@, c.key, transitionInfo),
                   !.rafQueue = Append(@, c)]
           ELSE [S EXCEPT
                   !.bondOrder = setBondOrder(@, c.atom1, c.atom2,
                                              transitionInfo.targetOrder),
                   !.bondTransitions = MapDelete(@, c.key)])

\* mutant: the completing run clears the whole map of transitions
animate_clearsAll(S, c) ==
  IF c.key \notin DOMAIN S.bondTransitions THEN S
  ELSE renderMolecules(
       LET transitionInfo ==
             [S.bondTransitions[c.key] EXCEPT
                !.progress = Min(@ + 1, StepsToFull)]
       IN  IF transitionInfo.progress < StepsToFull
           THEN [S EXCEPT
                   !.bondTransitions = MapSet(@, c.key, transitionInfo),
                   !.rafQueue = Append(@, c)]
           ELSE [S EXCEPT
                   !.bondOrder = setBondOrder(@, c.atom1, c.atom2,
                                              transitionInfo.targetOrder),
                   !.bondTransitions = [k \in {} |-> 0]])

\* one run of the animate closure c = [key, atom1, atom2]
animate(S, c) ==
  IF c.key \notin DOMAIN S.bondTransitions THEN S
  ELSE renderMolecules(
       LET transitionInfo ==
             [S.bondTransitions[c.key] EXCEPT
                !.progress = Min(@ + 1, StepsToFull)]
       IN  IF transitionInfo.progress < StepsToFull
           THEN [S EXCEPT
                   !.bondTransitions = MapSet(@, c.key, transitionInfo),
                   !.rafQueue = Append(@, c)]
           ELSE [S EXCEPT
                   !.bondOrder = setBondOrder(@, c.atom1, c.atom2,
                                              transitionInfo.targetOrder),
                   !.bondTransitions = MapDelete(@, c.key)])

\* mutant: the target order is not clamped to 0..3
startBondTransition_noClamp(S, atom1, atom2, bondChange, electronMovement) ==
  LET key == bondKey(atom1, atom2)
      initialOrder == getBondOrder(S.bondOrder, atom1, atom2)
      targetOrder == IF bondChange = "increase"
                     THEN initialOrder + 1
                     ELSE initialOrder - 1
      entry == [progress |-> 0, initialOrder |-> initialOrder,
                targetOrder |-> targetOrder, bondChange |-> bondChange,
                electronMovement |-> electronMovement,
                atom1 |-> atom1, atom2 |-> atom2]
      S1 == [S EXCEPT !.bondTransitions = MapSet(@, key, entry)]
  IN  animate(S1, [key |-> key, atom1 |-> atom1, atom2 |-> atom2,
                   manipulator |-> 0])

\* mutant: an active entry is kept, the new transition is dropped
startBondTransition_firstWins(S, atom1, atom2, bondChange, electronMovement) ==
  LET key == bondKey(atom1, atom2)
      initialOrder == getBondOrder(S.bondOrder, atom1, atom2)
      targetOrder == IF bondChange = "increase"
                     THEN Min(3, initialOrder + 1)
                     ELSE Max(0, initialOrder - 1)
      entry == [progress |-> 0, initialOrder |-> initialOrder,
                targetOrder |-> targetOrder, bondChange |-> bondChange,
                electronMovement |-> electronMovement,
                atom1 |-> atom1, atom2 |-> atom2]
      S1 == [S EXCEPT !.bondTransitions = MapSet(@, key, entry)]
  IN  IF key \in DOMAIN S.bondTransitions THEN S
      ELSE animate(S1, [key |-> key, atom1 |-> atom1, atom2 |-> atom2,
                   manipulator |-> 0])

\* mutant: the key keeps the atoms in the order given
startBondTransition_keyAsGiven(S, atom1, atom2, bondChange, electronMovement) ==
  LET key == <<atom1, atom2>>
      initialOrder == getBondOrder(S.bondOrder, atom1, atom2)
      targetOrder == IF bondChange = "increase"
                     THEN Min(3, initialOrder + 1)
                     ELSE Max(0, initialOrder - 1)
      entry == [progress |-> 0, initialOrder |-> initialOrder,
                targetOrder |-> targetOrder, bondChange |-> bondChange,
                electronMovement |-> electronMovement,
                atom1 |-> atom1, atom2 |-> atom2]
      S1 == [S EXCEPT !.bondTransitions = MapSet(@, key, entry)]
  IN  animate(S1, [key |-> key, atom1 |-> atom1, atom2 |-> atom2,
                   manipulator |-> 0])

\* mutant: while an entry is active, the new transition starts from that
\* entry's target instead of the order the graph holds
startBondTransition_chained(S, atom1, atom2, bondChange, electronMovement) ==
  LET key == bondKey(atom1, atom2)
      initialOrder == IF key \in DOMAIN S.bondTransitions
                      THEN S.bondTransitions[key].targetOrder
                      ELSE getBondOrder(S.bondOrder, atom1, atom2)
      targetOrder == IF bondChange = "increase"
                     THEN Min(3, initialOrder + 1)
                     ELSE Max(0, initialOrder - 1)
      entry == [progress |-> 0, initialOrder |-> initialOrder,
                targetOrder |-> targetOrder, bondChange |-> bondChange,
                electronMovement |-> electronMovement,
                atom1 |-> atom1, atom2 |-> atom2]
      S1 == [S EXCEPT !.bondTransitions = MapSet(@, key, entry)]
  IN  animate(S1, [key |-> key, atom1 |-> atom1, atom2 |-> atom2,
                   manipulator |-> 0])

\* mutant: a decrease never goes below a single bond
startBondTransition_floorOne(S, atom1, atom2, bondChange, electronMovement) ==
  LET key == bondKey(atom1, atom2)
      initialOrder == getBondOrder(S.bondOrder, atom1, atom2)
      targetOrder == IF bondChange = "increase"
                     THEN Min(3, initialOrder + 1)
                     ELSE Max(1, initialOrder - 1)
      entry == [progress |-> 0, initialOrder |-> initialOrder,
                targetOrder |-> targetOrder, bondChange |-> bondChange,
                electronMovement |-> electronMovement,
                atom1 |-> atom1, atom2 |-> atom2]
      S1 == [S EXCEPT !.bondTransitions = MapSet(@, key, entry)]
  IN  animate(S1, [key |-> key, atom1 |-> atom1, atom2 |-> atom2,
                   manipulator |-> 0])

startBondTransition(S, atom1, atom2, bondChange, electronMovement) ==
  LET key == bondKey(atom1, atom2)
      initialOrder == getBondOrder(S.bondOrder, atom1, atom2)
      targetOrder == IF bondChange = "increase"
                     THEN Min(3, initialOrder + 1)
                     ELSE Max(0, initialOrder - 1)
      entry == [progress |-> 0, initialOrder |-> initialOrder,
                targetOrder |-> targetOrder, bondChange |-> bondChange,
                electronMovement |-> electronMovement,
                atom1 |-> atom1, atom2 |-> atom2]
      S1 == [S EXCEPT !.bondTransitions = MapSet(@, key, entry)]
  IN  animate(S1, [key |-> key, atom1 |-> atom1, atom2 |-> atom2,
                   manipulator |-> 0])

\* mutant: the A2B branch moves the charges but never takes a lone pair
updateCharges_keepsLonePair(S, atom1, atom2, movementType) ==
  LET charge1 == getCharge(S, atom1)
      charge2 == getCharge(S, atom2)
  IN  IF movementType = "A2B"
      THEN LET S1 == chargesSet(S, atom1, JSAdd(charge1, 1))
           IN  chargesSet(S1, atom2, JSAdd(charge2, -1))
      ELSE IF movementType \in {"combined", "B2B"}
      THEN LET S1 == chargesSet(S, atom1, JSAdd(charge1, -1))
           IN  chargesSet(S1, atom2, JSAdd(charge2, 1))
      ELSE S

updateCharges(S, atom1, atom2, movementType) ==
  LET charge1 == getCharge(S, atom1)
      charge2 == getCharge(S, atom2)
  IN  IF movementType = "A2B"
      THEN LET S1 == chargesSet(S, atom1, JSAdd(charge1, 1))
               S2 == chargesSet(S1, atom2, JSAdd(charge2, -1))
               lp == getLonePairs(S2.lonePairs, atom1)
           IN  IF (JSLess(getCharge(S2, atom1), 0) \/ lp > 0) /\ lp > 0
               THEN [S2 EXCEPT !.lonePairs = MapSet(@, atom1, lp - 1)]
               ELSE S2
      ELSE IF movementType \in {"combined", "B2B"}
      THEN LET S1 == chargesSet(S, atom1, JSAdd(charge1, -1))
           IN  chargesSet(S1, atom2, JSAdd(charge2, 1))
      ELSE S

\* mutant: the transition is started before the donor is checked
moveElectronPairFromAtomToBond_startsFirst(S, atom1, atom2) ==
  LET donorAtom == atom1
      receiverAtom == atom2
      donorCharge == getCharge(S, donorAtom)
      donorLonePairs == getLonePairs(S.lonePairs, donorAtom)
      S1 == startBondTransition(S, donorAtom, receiverAtom, "increase", "donor")
      currentOrder == getBondOrder(S1.bondOrder, atom1, atom2)
  IN  IF S1.thrown THEN S1
      ELSE IF JSLess(donorCharge, 0) \/ donorLonePairs > 0
      THEN IF currentOrder < 3
           THEN updateCharges(
                  [S1 EXCEPT !.bondOrder =
                     setBondOrder(@, atom1, atom2, currentOrder + 1)],
                  donorAtom, receiverAtom, "A2B")
           ELSE S1
      ELSE S1

moveElectronPairFromAtomToBond(S, atom1, atom2) ==
  LET donorAtom == atom1
      receiverAtom == atom2
      donorCharge == getCharge(S, donorAtom)
      donorLonePairs == getLonePairs(S.lonePairs, donorAtom)
  IN  IF JSLess(donorCharge, 0) \/ donorLonePairs > 0
      THEN LET S1 == startBondTransition(S, donorAtom, receiverAtom,
                                         "increase", "donor")
               currentOrder == getBondOrder(S1.bondOrder, atom1, atom2)
           IN  IF S1.thrown THEN S1
               ELSE IF currentOrder < 3
               THEN updateCharges(
                      [S1 EXCEPT !.bondOrder =
                         setBondOrder(@, atom1, atom2, currentOrder + 1)],
                      donorAtom, receiverAtom, "A2B")
               ELSE S1
      ELSE S

\* mutant: the move is rejected when the bond order is already 0
moveElectronPairFromBondToAtom_guarded(S, atom1, atom2) ==
  IF getBondOrder(S.bondOrder, atom1, atom2) > 0
  THEN LET S1 == startBondTransition(S, atom1, atom2, "decrease", "bond-to-atom")
           S2 == updateCharge(S1, atom2, -1)
       IN  IF S1.thrown THEN S1 ELSE updateCharge(S2, atom1, 1)
  ELSE S

\* mutant: the two charge updates are swapped
moveElectronPairFromBondToAtom_swapped(S, atom1, atom2) ==
  LET S1 == startBondTransition(S, atom1, atom2, "decrease", "bond-to-atom")
      S2 == updateCharge(S1, atom2, 1)
  IN  IF S1.thrown THEN S1 ELSE updateCharge(S2, atom1, -1)

\* (a start that throws ends the move before its charge updates)
moveElectronPairFromBondToAtom(S, atom1, atom2) ==
  LET S1 == startBondTransition(S, atom1, atom2, "decrease", "bond-to-atom")
      S2 == updateCharge(S1, atom2, -1)
  IN  IF S1.thrown THEN S1 ELSE updateCharge(S2, atom1, 1)

\* mutant: the middle atom of the path takes the negative charge
moveElectronsBetweenBonds_middle(S, atom1, atom2, atom3) ==
  LET S1 == startBondTransition(S, atom1, atom2, "decrease", "bond-to-bond")
      S2 == startBondTransition(S1, atom2, atom3, "increase", "bond-to-bond")
      S3 == updateCharge(S2, atom1, 1)
  IN  IF S1.thrown THEN S1
      ELSE IF S2.thrown THEN S2
      ELSE updateCharge(S3, atom2, -1)

moveElectronsBetweenBonds(S, atom1, atom2, atom3) ==
  LET S1 == startBondTransition(S, atom1, atom2, "decrease", "bond-to-bond")
      S2 == startBondTransition(S1, atom2, atom3, "increase", "bond-to-bond")
      S3 == updateCharge(S2, atom1, 1)
  IN  IF S1.thrown THEN S1
      ELSE IF S2.thrown THEN S2
      ELSE updateCharge(S3, atom3, -1)

\* mutant: the bond order is not checked before the bond is split
B2ASingle_unguarded(S, atom1, atom2) ==
  LET S1 == [S EXCEPT !.singleElectrons =
               setSingleElectron(@, atom1,
                 PlusOne(getSingleElectron(S.singleElectrons, atom1)))]
      S2 == [S1 EXCEPT !.singleElectrons =
               setSingleElectron(@, atom2,
                 PlusOne(getSingleElectron(S1.singleElectrons, atom2)))]
  IN  startBondTransition(S2, atom1, atom2, "decrease", "undefined")

B2ASingle(S, atom1, atom2) ==
  LET currentBondOrder == getBondOrder(S.bondOrder, atom1, atom2)
  IN  IF currentBondOrder > 0
      THEN LET S1 == [S EXCEPT !.singleElectrons =
                        setSingleElectron(@, atom1,
                          PlusOne(getSingleElectron(S.singleElectrons, atom1)))]
               S2 == [S1 EXCEPT !.singleElectrons =
                        setSingleElectron(@, atom2,
                          PlusOne(getSingleElectron(S1.singleElectrons, atom2)))]
           IN  startBondTransition(S2, atom1, atom2, "decrease", "undefined")
      ELSE S

\* a queued closure runs animate on the manipulator that queued it
Run(S, c) ==
  IF c.manipulator = 0 THEN animate(S, c)
  ELSE Swap(animate(Swap(S, c.manipulator), [c EXCEPT !.manipulator = 0]),
            c.manipulator)

\* one animation frame: the queued closures run in registration order,
\* what they queue is run by the next frame
RECURSIVE RunCallbacks(_, _)
RunCallbacks(S, queue) ==
  IF queue = <<>> THEN S
  ELSE RunCallbacks(Run(S, Head(queue)), Tail(queue))

Frame(S) == RunCallbacks([S EXCEPT !.rafQueue = <<>>], S.rafQueue)

\* ----------------------------------------------------------------- actions
\* ------------------------------------------------------------ the demo page
\* The canned steps of chem.html; an identifier "6-7" is the tuple of the
\* atom indices it names.
steps ==
  <<[trigger |-> "B2A", moleculeIndex |-> 0, bondIdentifier |-> <<6, 7>>],
    [trigger |-> "B2A", moleculeIndex |-> 1, bondIdentifier |-> <<2, 1>>],
    [trigger |-> "B2B", moleculeIndex |-> 0, bondIdentifier |-> <<2, 3, 6>>]>>

\* moleculeInfo.getMolecule().toSmiles(): the string is represented by the
\* graph it denotes, the SMILES the molecule was parsed from and the bond
\* orders it carries now.  The writer and the parser are the library's
\* (OCL); the graph parsed from a string is taken to be the graph the
\* string was written from, atom numbers included.
toSmiles(m, bo) == [molecule |-> m, bondOrder |-> bo]

\* the strings of a sequence of moleculeMap entries
RECURSIVE mapToSmiles(_)
mapToSmiles(molecules) ==
  IF molecules = <<>> THEN <<>>
  ELSE <<toSmiles(Head(molecules).molecule, Head(molecules).bondOrder)>>
       \o mapToSmiles(Tail(molecules))

\* actions.renderer.getMolecules().map(m => ...toSmiles()): one string per
\* molecule of moleculeMap, in the order they were added
getMoleculesSmiles(S) ==
  IF S.molecule = "none" THEN <<>>
  ELSE <<toSmiles(S.molecule, S.bondOrder)>> \o mapToSmiles(S.others)

\* mutant: the two buttons are taken for each other
updateButtonStates_swapped(step) ==
  [previousButton |-> (step = Len(steps)), nextButton |-> (step = 0)]

\* the values updateButtonStates gives the two disabled properties
updateButtonStates(step) ==
  [previousButton |-> (step = 0), nextButton |-> (step = Len(steps))]

\* the page's variables
page == <<currentStep, stateHistory, previousButton, nextButton>>

Page ==
  [currentStep |-> currentStep, stateHistory |-> stateHistory,
   previousButton |-> previousButton, nextButton |-> nextButton]

\* the page after its DOMContentLoaded handler has run
PageLoaded ==
  /\ currentStep = 0
  /\ stateHistory = <<getMoleculesSmiles(State)>>
  /\ previousButton = updateButtonStates(currentStep).previousButton
  /\ nextButton = updateButtonStates(currentStep).nextButton

\* ------------------------------------------------------------------ actions
\* the molecule's state after a handler is S
CommitMolecule(S) ==
  /\ thrown' = S.thrown
  /\ bondOrder' = S.bondOrder
  /\ lonePairs' = S.lonePairs
  /\ singleElectrons' = S.singleElectrons
  /\ charges' = S.charges
  /\ nanCharges' = S.nanCharges
  /\ bondTransitions' = S.bondTransitions
  /\ rafQueue' = S.rafQueue
  /\ molecule' = S.molecule
  /\ others' = S.others
  /\ moleculeIds' = S.moleculeIds
  /\ detached' = S.detached

\* the same for a handler outside the page, which leaves the page alone
Commit(S) ==
  /\ CommitMolecule(S)
  /\ UNCHANGED page

\* a history record without its own predecessor
Earlier(h) == [kind |-> h.kind, a |-> h.a, b |-> h.b, c |-> h.c, pre |-> h.pre]

Record(kind, a, b, c) ==
  /\ movesLeft > 0
  /\ movesLeft' = movesLeft - 1
  /\ last' = [kind |-> kind, a |-> a, b |-> b, c |-> c, pre |-> State,
              prev |-> last.prev]

\* the same for a direct start or a repeated move, which also keeps the
\* record before it
RecordStart(kind, a, b) ==
  /\ movesLeft > 0
  /\ movesLeft' = movesLeft - 1
  /\ last' = [kind |-> kind, a |-> a, b |-> b, c |-> b, pre |-> State,
              prev |-> Earlier(last)]

\* a molecule of the catalog has been loaded and its manipulator built
Constructed(catalog) ==
  /\ molecule \in catalog
  /\ bondOrder = InitialBonds(molecule)
  /\ lonePairs = initializeLonePairs(molecule, bondOrder)
  /\ singleElectrons = InitialSingleElectrons(molecule, bondOrder)
  /\ charges = InitialCharges(molecule)
  /\ nanCharges = {}
  /\ bondTransitions = [k \in {} |-> 0]
  /\ rafQueue = <<>>
  /\ others = <<>>
  /\ detached = <<>>
  /\ moleculeIds = <<0>>
  /\ thrown = FALSE
  /\ last = [kind |-> "none", a |-> 0, b |-> 0, c |-> 0, pre |-> State,
             prev |-> [kind |-> "none", a |-> 0, b |-> 0, c |-> 0,
                       pre |-> State]]
  /\ PageLoaded

Loaded == Constructed(Molecules)

Init == Loaded /\ movesLeft = MaxMoves

LiveInit == Loaded /\ movesLeft = MaxLiveMoves

A2B ==
  \E id \in Pairs :
    /\ Record("A2B", id[1], id[2], id[2])
    /\ Commit(moveElectronPairFromAtomToBond(State, id[1], id[2]))

B2A ==
  \E id \in Pairs :
    /\ Record("B2A", id[1], id[2], id[2])
    /\ Commit(moveElectronPairFromBondToAtom(State, id[1], id[2]))

B2B ==
  \E path \in Paths :
    /\ Record("B2B", path[1], path[2], path[3])
    /\ Commit(moveElectronsBetweenBonds(State, path[1], path[2], path[3]))

Radical ==
  \E id \in Pairs :
    /\ Record("B2ASingle", id[1], id[2], id[2])
    /\ Commit(B2ASingle(State, id[1], id[2]))

\* a frame is delivered while some animate closure is queued
Tick ==
  /\ rafQueue # <<>>
  /\ Commit(Frame(State))
  /\ UNCHANGED <<last, movesLeft>>

\* startBondTransition called directly, in either direction
Start ==
  \E id \in Pairs, bondChange \in {"increase", "decrease"} :
    /\ RecordStart(bondChange, id[1], id[2])
    /\ Commit(startBondTransition(State, id[1], id[2], bondChange, "direct"))

Next == A2B \/ B2A \/ B2B \/ Radical \/ Tick

Spec == Init /\ [][Next]_vars

\* frames keep being delivered by the browser
FairSpec == LiveInit /\ [][Next]_vars /\ WF_vars(Tick)

\* The transition engine on its own: a graph whose bonds carry any order
\* earlier moves can have left (0 .. 3), direct starts, frames.  One chain
\* and one star of three atoms; the engine reads no label and no charge.
EngineMolecules == {"O=C=O", "O"}

\* the molecules the checks of the Actions layer add
ActionsMolecules == {"O=C=O", "O"}

EngineInit ==
  /\ molecule \in EngineMolecules
  /\ bondOrder \in [DOMAIN InitialBonds(molecule) -> 0 .. 3]
  /\ lonePairs = initializeLonePairs(molecule, InitialBonds(molecule))
  /\ singleElectrons = InitialSingleElectrons(molecule, InitialBonds(molecule))
  /\ charges = InitialCharges(molecule)
  /\ nanCharges = {}
  /\ bondTransitions = [k \in {} |-> 0]
  /\ rafQueue = <<>>
  /\ others = <<>>
  /\ detached = <<>>
  /\ moleculeIds = <<0>>
  /\ thrown = FALSE
  /\ last = [kind |-> "none", a |-> 0, b |-> 0, c |-> 0, pre |-> State,
             prev |-> [kind |-> "none", a |-> 0, b |-> 0, c |-> 0,
                       pre |-> State]]
  /\ movesLeft = MaxMoves
  /\ PageLoaded

EngineNext == Start \/ Tick

EngineSpec == EngineInit /\ [][EngineNext]_vars

\* The ledger under identifiers that may name an index past the atoms:
\* updateCharge called directly, the bond->atom move, frames.
LoosePairs ==
  {<<a, b>> : a \in Indices, b \in Indices} \ {<<a, a>> : a \in Indices}

Adjust ==
  \E atomIndex \in Indices, change \in {-1, 1} :
    /\ Record("updateCharge", atomIndex, atomIndex, change)
    /\ Commit(updateCharge(State, atomIndex, change))

B2ALoose ==
  \E id \in LoosePairs :
    /\ Record("B2A", id[1], id[2], id[2])
    /\ Commit(moveElectronPairFromBondToAtom(State, id[1], id[2]))

LedgerNext == Adjust \/ B2ALoose \/ Tick

LedgerSpec == Init /\ [][LedgerNext]_vars

\* The accounting at load, on molecules with saturated carbons, hydrogen-
\* bearing heteroatoms and an element outside the valence table; the moves
\* name the first three atoms.
AccountingInit == Constructed(AccountingMolecules) /\ movesLeft = MaxLiveMoves

AccountingSpec == AccountingInit /\ [][Next]_vars

\* calculateLonePairs on its own: one atom of a fresh MoleculeInfo, its
\* symbol, charge, bond orders and hydrogen count drawn from bounded sets,
\* accounted for as the loop of initializeLonePairs does (lines 191-198).
CalcSymbols == {"H", "C", "N", "O", "Cl", "S", "B"}

BondOrderLists == UNION {[1 .. n -> 1 .. 3] : n \in 0 .. MaxBonds}

CalcInit ==
  /\ molecule = "none"
  /\ bondOrder = [k \in {} |-> 0]
  /\ lonePairs = [i \in {} |-> 0]
  /\ singleElectrons = [i \in {} |-> 0]
  /\ charges = [i \in {} |-> 0]
  /\ nanCharges = {}
  /\ bondTransitions = [k \in {} |-> 0]
  /\ rafQueue = <<>>
  /\ others = <<>>
  /\ detached = <<>>
  /\ moleculeIds = <<>>
  /\ thrown = FALSE
  /\ \E atomSymbol \in CalcSymbols, formalCharge \in {-1, 0, 1},
        bondOrders \in BondOrderLists, implicitHydrogens \in 0 .. MaxBonds :
       last = [kind |-> "pending", atomSymbol |-> atomSymbol,
               formalCharge |-> formalCharge, bondOrders |-> bondOrders,
               implicitHydrogens |-> implicitHydrogens]
  /\ movesLeft = 1
  /\ PageLoaded

Calculate ==
  LET i == 0
      r == calculateLonePairs(last.atomSymbol, last.formalCharge,
                              last.bondOrders, last.implicitHydrogens)
  IN  /\ movesLeft > 0
      /\ movesLeft' = movesLeft - 1
      /\ last' = [last EXCEPT !.kind = "calculateLonePairs"]
      /\ lonePairs' = MapSet(lonePairs, i, r.lonePairs)
      /\ singleElectrons' = IF r.stored
                            THEN setSingleElectron(singleElectrons, i,
                                                   r.singleElectrons)
                            ELSE singleElectrons
      /\ UNCHANGED <<molecule, others, moleculeIds, detached, bondOrder,
                     charges, nanCharges, bondTransitions, rafQueue, thrown>>
      /\ UNCHANGED page

CalcSpec == CalcInit /\ [][Calculate]_vars

\* The bond->atom move issued repeatedly, with frames in between or not.
B2AAgain ==
  \E id \in Pairs :
    /\ RecordStart("B2A", id[1], id[2])
    /\ Commit(moveElectronPairFromBondToAtom(State, id[1], id[2]))

RepeatNext == B2AAgain \/ Tick

RepeatSpec == Init /\ [][RepeatNext]_vars

\* The Actions layer.  The constructor assigns canvasId, renderer and
\* moleculeIds and nothing else, so the property this.bondManipulator of
\* the Actions object is undefined.  The drawing loop startAnimation keeps
\* for the renderer changes no state of the program and is left out.
MaxMolecules == 2

thisBondManipulator == undefined

\* new Actions(canvasId): a renderer with an empty moleculeMap, no ids
ActionsConstructed ==
  /\ molecule = "none"
  /\ bondOrder = [k \in {} |-> 0]
  /\ lonePairs = [i \in {} |-> 0]
  /\ singleElectrons = [i \in {} |-> 0]
  /\ charges = [i \in {} |-> 0]
  /\ nanCharges = {}
  /\ bondTransitions = [k \in {} |-> 0]
  /\ rafQueue = <<>>
  /\ others = <<>>
  /\ detached = <<>>
  /\ moleculeIds = <<>>
  /\ thrown = FALSE

\* Actions.addMolecule(smiles): the molecule is parsed, its manipulator
\* built, and renderer.addMolecule puts the pair in moleculeMap under the
\* id molecule_<size of the map> and renders; the id is pushed after that
\* call has returned, and not at all when its rendering throws.  The await
\* waits for the parser only.
addMolecule(S, smiles) ==
  LET id == mapSize(S)
      added == renderMolecules(
                 PutMolecule(S, id, Parsed(smiles, InitialBonds(smiles))))
  IN  IF added.thrown
      THEN added
      ELSE renderMolecules([added EXCEPT !.moleculeIds = Append(@, id)])

\* this.moleculeIds[moleculeIndex] is an id moleculeMap holds
hasMolecule(S, moleculeIndex) == moleculeIndex + 1 \in DOMAIN S.moleculeIds

\* the position in moleculeMap of the id behind moleculeIndex
idOf(S, moleculeIndex) == S.moleculeIds[moleculeIndex + 1]

\* Actions.B2A(moleculeIndex, bondIdentifier): console.error and a normal
\* return when no molecule is behind the index
triggerB2A(S, moleculeIndex, atom1, atom2) ==
  IF ~hasMolecule(S, moleculeIndex) THEN S
  ELSE Swap(moveElectronPairFromBondToAtom(
              Swap(S, idOf(S, moleculeIndex)), atom1, atom2),
            idOf(S, moleculeIndex))

\* Actions.B2B(moleculeIndex, bondIdentifier)
triggerB2B(S, moleculeIndex, atom1, atom2, atom3) ==
  IF ~hasMolecule(S, moleculeIndex) THEN S
  ELSE Swap(moveElectronsBetweenBonds(
              Swap(S, idOf(S, moleculeIndex)), atom1, atom2, atom3),
            idOf(S, moleculeIndex))

\* how a call that left S ended
Outcome(S) == IF S.thrown THEN "TypeError" ELSE "returned"

\* history of a trigger: its name, arguments and how the call ended
RecordTrigger(kind, moleculeIndex, a, b, c, outcome) ==
  /\ movesLeft > 0
  /\ movesLeft' = movesLeft - 1
  /\ last' = [kind |-> kind, moleculeIndex |-> moleculeIndex,
              a |-> a, b |-> b, c |-> c, outcome |-> outcome,
              pre |-> State, prev |-> last.prev]

\* a call of Actions.addMolecule while the map holds fewer than
\* MaxMolecules molecules
ActionsAddMolecule ==
  \E smiles \in ActionsMolecules :
    /\ mapSize(State) < MaxMolecules
    /\ LET S == addMolecule(State, smiles)
       IN  /\ last' = [kind |-> "addMolecule", moleculeIndex |-> mapSize(State),
                       a |-> 0, b |-> 0, c |-> 0, outcome |-> Outcome(S),
                       pre |-> State, prev |-> last.prev]
           /\ UNCHANGED movesLeft
           /\ Commit(S)

ActionsB2A ==
  \E moleculeIndex \in 0 .. (MaxMolecules - 1), id \in Pairs :
    LET S == triggerB2A(State, moleculeIndex, id[1], id[2])
    IN  /\ RecordTrigger("B2A", moleculeIndex, id[1], id[2], id[2],
                         IF hasMolecule(State, moleculeIndex)
                         THEN Outcome(S) ELSE "no bond manipulator")
        /\ Commit(S)

ActionsB2B ==
  \E moleculeIndex \in 0 .. (MaxMolecules - 1), path \in Paths :
    LET S == triggerB2B(State, moleculeIndex, path[1], path[2], path[3])
    IN  /\ RecordTrigger("B2B", moleculeIndex, path[1], path[2], path[3],
                         IF hasMolecule(State, moleculeIndex)
                         THEN Outcome(S) ELSE "no bond manipulator")
        /\ Commit(S)

\* Actions.A2B(bondIdentifier): calls the bond->atom move on
\* this.bondManipulator
ActionsA2B ==
  \E id \in Pairs :
    IF thisBondManipulator = undefined
    THEN /\ RecordTrigger("A2B", 0, id[1], id[2], id[2], "TypeError")
         /\ Commit([State EXCEPT !.thrown = TRUE])
    ELSE LET S == moveElectronPairFromBondToAtom(State, id[1], id[2])
         IN  /\ RecordTrigger("A2B", 0, id[1], id[2], id[2], Outcome(S))
             /\ Commit(S)

\* Actions.B2ASingle(bondIdentifier): calls B2ASingle on this.bondManipulator
ActionsB2ASingle ==
  \E id \in Pairs :
    IF thisBondManipulator = undefined
    THEN /\ RecordTrigger("B2ASingle", 0, id[1], id[2], id[2], "TypeError")
         /\ Commit([State EXCEPT !.thrown = TRUE])
    ELSE LET S == B2ASingle(State, id[1], id[2])
         IN  /\ RecordTrigger("B2ASingle", 0, id[1], id[2], id[2], Outcome(S))
             /\ Commit(S)

ActionsInit ==
  /\ ActionsConstructed
  /\ last = [kind |-> "none", moleculeIndex |-> 0, a |-> 0, b |-> 0, c |-> 0,
             outcome |-> "returned", pre |-> State,
             prev |-> [kind |-> "none", a |-> 0, b |-> 0, c |-> 0,
                       pre |-> State]]
  /\ movesLeft = MaxMoves
  /\ PageLoaded

ActionsNext ==
  \/ ActionsAddMolecule
  \/ ActionsB2A
  \/ ActionsB2B
  \/ ActionsA2B
  \/ ActionsB2ASingle
  \/ Tick

ActionsSpec == ActionsInit /\ [][ActionsNext]_vars

\* ------------------------------------------------- the page's click handlers
\* steps[currentStep](): the trigger of class Actions the step names
RunStep(S, step) ==
  IF step.trigger = "B2A"
  THEN triggerB2A(S, step.moleculeIndex, step.bondIdentifier[1],
                  step.bondIdentifier[2])
  ELSE triggerB2B(S, step.moleculeIndex, step.bondIdentifier[1],
                  step.bondIdentifier[2], step.bondIdentifier[3])

\* the closures of a queue with those of manipulator from bound to to
RECURSIVE Retarget(_, _, _)
Retarget(queue, from, to) ==
  IF queue = <<>> THEN <<>>
  ELSE <<[Head(queue) EXCEPT !.manipulator = IF @ = from THEN to ELSE @]>>
       \o Retarget(Tail(queue), from, to)

\* some queued closure was queued by the manipulator at position id
isQueued(S, id) ==
  \E n \in DOMAIN S.rafQueue : S.rafQueue[n].manipulator = id

\* renderer.updateMolecule(id, newMoleculeInfo) with id the position in the
\* map: the new MoleculeInfo, with a new BondManipulator, takes the place
\* of the old pair in the entry.  No frame callback is cancelled: the
\* closures the old manipulator queued stay queued and keep running on the
\* old pair, which the renderer no longer draws.  An old pair no closure
\* refers to is out of the program's reach and is not kept.
updateMolecule(S, id, newMoleculeInfo) ==
  IF isQueued(S, id)
  THEN [PutMolecule(S, id, newMoleculeInfo) EXCEPT
          !.detached = Append(@, [pairAt(S, id) EXCEPT !.shown = FALSE]),
          !.rafQueue = Retarget(@, id, -(Len(S.detached) + 1))]
  ELSE PutMolecule(S, id, newMoleculeInfo)

\* the loop of resetMolecules from index i on; this.moleculeIds[i] is
\* undefined past the ids pushed, and updateMolecule passes an id the map
\* does not hold
RECURSIVE resetFrom(_, _, _)
resetFrom(S, smilesArray, i) ==
  IF i > Len(smilesArray) THEN S
  ELSE resetFrom(
         IF i \in DOMAIN S.moleculeIds
         THEN updateMolecule(S, S.moleculeIds[i],
                             Parsed(smilesArray[i].molecule,
                                    smilesArray[i].bondOrder))
         ELSE S,
         smilesArray, i + 1)

\* Actions.resetMolecules(smilesArray): a new MoleculeInfo is parsed from
\* each snapshot and put in the place of the molecule behind the same
\* index; then the renderer draws
resetMolecules(S, smilesArray) ==
  renderMolecules(resetFrom(S, smilesArray, 1))

\* history of a click: which button, the page and the molecule before it,
\* and the clicks so far, each as its button and the step it was made at
RecordClick(button) ==
  /\ movesLeft > 0
  /\ movesLeft' = movesLeft - 1
  /\ last' = [kind |-> button, page |-> Page, pre |-> State,
              clicks |-> last.clicks \cup {<<button, currentStep>>}]

\* the click handler of nextButton.  The handler is called whatever the
\* button's disabled property says; its own test decides.  A step that
\* throws ends the handler before currentStep++.
NextClick ==
  /\ RecordClick("Next")
  /\ IF currentStep < Len(steps)
     THEN LET S == RunStep(State, steps[currentStep + 1])
          IN  /\ CommitMolecule(S)
              /\ IF S.thrown
                 THEN UNCHANGED page
                 ELSE /\ currentStep' = currentStep + 1
                      /\ stateHistory' = Append(stateHistory,
                                                getMoleculesSmiles(S))
                      /\ previousButton'
                           = updateButtonStates(currentStep + 1).previousButton
                      /\ nextButton'
                           = updateButtonStates(currentStep + 1).nextButton
     ELSE /\ CommitMolecule(State)
          /\ UNCHANGED page

\* stateHistory.pop()
pop(history) ==
  IF history = <<>> THEN <<>> ELSE SubSeq(history, 1, Len(history) - 1)

\* the click handler of previousButton.  The awaits of resetMolecules wait
\* for nothing but promises that are already resolved, so the handler ends
\* before any other click or frame is served.  With nothing left in
\* stateHistory previousState is undefined and resetMolecules throws when it
\* reads smilesArray.length.  When resetMolecules throws, the handler ends
\* at its await: currentStep and stateHistory have changed, and
\* updateButtonStates is not reached.
PreviousClick ==
  /\ RecordClick("Previous")
  /\ IF currentStep > 0
     THEN LET popped == pop(stateHistory)
              S == IF popped = <<>>
                   THEN [State EXCEPT !.thrown = TRUE]
                   ELSE resetMolecules(State, popped[Len(popped)])
          IN  /\ currentStep' = currentStep - 1
              /\ stateHistory' = popped
              /\ CommitMolecule(S)
              /\ IF S.thrown
                 THEN UNCHANGED <<previousButton, nextButton>>
                 ELSE /\ previousButton'
                           = updateButtonStates(currentStep - 1).previousButton
                      /\ nextButton'
                           = updateButtonStates(currentStep - 1).nextButton
     ELSE /\ CommitMolecule(State)
          /\ UNCHANGED page

PageNext == NextClick \/ PreviousClick \/ Tick

\* number of clicks the checks of the page follow
MaxClicks == 6

\* the renderer and the Actions object after the loop of chem.html has
\* added the two molecules, one after the other
PageMoleculesAdded ==
  /\ molecule = PageMolecules[1]
  /\ bondOrder = InitialBonds(molecule)
  /\ lonePairs = initializeLonePairs(molecule, bondOrder)
  /\ singleElectrons = InitialSingleElectrons(molecule, bondOrder)
  /\ charges = InitialCharges(molecule)
  /\ nanCharges = {}
  /\ bondTransitions = [k \in {} |-> 0]
  /\ rafQueue = <<>>
  /\ others = <<Parsed(PageMolecules[2], InitialBonds(PageMolecules[2]))>>
  /\ moleculeIds = <<0, 1>>
  /\ detached = <<>>
  /\ thrown = FALSE

\* chem.html after DOMContentLoaded: new Actions, the two molecules added,
\* the buttons wired.  The page's own drawing loop (animate, lines 108-112)
\* changes no state of the program and is left out.
PageInit ==
  /\ PageMoleculesAdded
  /\ PageLoaded
  /\ last = [kind |-> "none", page |-> Page, pre |-> State, clicks |-> {}]
  /\ movesLeft = MaxClicks

PageSpec == PageInit /\ [][PageNext]_vars

TypeOK ==
  /\ molecule \in Molecules
  /\ DOMAIN bondOrder = DOMAIN InitialBonds(molecule)
  /\ DOMAIN bondTransitions \subseteq Keys
  /\ movesLeft \in 0 .. Max(MaxMoves, MaxLiveMoves)

\* ------------------------------------------------------ notions of the claims
\* the step is a move (every move handler counts movesLeft down)
MoveStep == movesLeft' = movesLeft - 1

\* the step is an animation frame
TickStep == movesLeft' = movesLeft /\ rafQueue # <<>>

LastKey == bondKey(last.a, last.b)

LastKey2 == bondKey(last.b, last.c)

Clamp(n) == Max(0, Min(3, n))

\* C1: a bond->atom move "a-b" on a bonded pair of order k in 1..3 with no
\* active transition raises a's charge by 1 and lowers b's by 1; until its
\* transition completes the entry targets k-1, and once the entry is gone
\* the bond order is k-1.
C1_BondToAtom ==
  LET a == last.a
      b == last.b
      pre == last.pre
  IN  (/\ last.kind = "B2A"
       /\ LastKey \in DOMAIN pre.bondOrder
       /\ pre.bondOrder[LastKey] \in 1 .. 3
       /\ LastKey \notin DOMAIN pre.bondTransitions)
      => /\ charges[a] = pre.charges[a] + 1
         /\ charges[b] = pre.charges[b] - 1
         /\ IF LastKey \in DOMAIN bondTransitions
            THEN /\ bondTransitions[LastKey].targetOrder = pre.bondOrder[LastKey] - 1
                 /\ bondTransitions[LastKey].progress < StepsToFull
            ELSE bondOrder[LastKey] = pre.bondOrder[LastKey] - 1

\* C2: a bond->bond move along a bonded path a-b-c with no active transition
\* on either bond raises a's charge by 1, lowers c's by 1 and leaves b's; once
\* both entries are gone, order(a,b) = max(0, old-1), order(b,c) = min(3, old+1).
C2_BondToBond ==
  LET a == last.a
      b == last.b
      c == last.c
      pre == last.pre
  IN  (/\ last.kind = "B2B"
       /\ LastKey \in DOMAIN pre.bondOrder
       /\ LastKey2 \in DOMAIN pre.bondOrder
       /\ LastKey \notin DOMAIN pre.bondTransitions
       /\ LastKey2 \notin DOMAIN pre.bondTransitions)
      => /\ charges[a] = pre.charges[a] + 1
         /\ charges[c] = pre.charges[c] - 1
         /\ charges[b] = pre.charges[b]
         /\ LastKey \notin DOMAIN bondTransitions
              => bondOrder[LastKey] = Max(0, pre.bondOrder[LastKey] - 1)
         /\ LastKey2 \notin DOMAIN bondTransitions
              => bondOrder[LastKey2] = Min(3, pre.bondOrder[LastKey2] + 1)
         /\ LastKey \in DOMAIN bondTransitions
              => /\ bondTransitions[LastKey].progress < StepsToFull
                 /\ bondOrder[LastKey] = pre.bondOrder[LastKey]
         /\ LastKey2 \in DOMAIN bondTransitions
              => /\ bondTransitions[LastKey2].progress < StepsToFull
                 /\ bondOrder[LastKey2] = pre.bondOrder[LastKey2]

\* C3: an accepted lone-pair->bond move (donor charge < 0 or lone pairs > 0,
\* order of the named pair < 3) creates one "increase" entry on the pair and
\* queues one animate closure, raises the donor's charge by 1, lowers the
\* acceptor's by 1, and decrements the donor's lone pairs iff it had one.
C3_AtomToBondAccepted ==
  [][ LET a == last'.a
          b == last'.b
          K == bondKey(a, b)
          order == getBondOrder(bondOrder, a, b)
      IN  (/\ MoveStep
           /\ last'.kind = "A2B"
           /\ (charges[a] < 0 \/ lonePairs[a] > 0)
           /\ order < 3)
          => /\ K \in DOMAIN bondTransitions'
             /\ bondTransitions'[K].bondChange = "increase"
             /\ bondTransitions'[K].initialOrder = order
             /\ bondTransitions'[K].targetOrder = order + 1
             /\ \A k \in Keys \ {K} :
                  /\ (k \in DOMAIN bondTransitions') = (k \in DOMAIN bondTransitions)
                  /\ k \in DOMAIN bondTransitions
                       => bondTransitions'[k] = bondTransitions[k]
             /\ Len(rafQueue') = Len(rafQueue) + 1
             /\ charges' = [charges EXCEPT ![a] = @ + 1, ![b] = @ - 1]
             /\ lonePairs' = [lonePairs EXCEPT
                                ![a] = IF @ > 0 THEN @ - 1 ELSE @]
             /\ singleElectrons' = singleElectrons ]_vars

\* C4: a rejected lone-pair->bond move (donor charge >= 0 and no lone pair)
\* changes no transition entry, no ledger entry, no lone-pair or
\* single-electron count and no bond order.
C4_AtomToBondRejected ==
  [][ (/\ MoveStep
       /\ last'.kind = "A2B"
       /\ charges[last'.a] >= 0
       /\ lonePairs[last'.a] = 0)
      => /\ bondTransitions' = bondTransitions
         /\ charges' = charges
         /\ lonePairs' = lonePairs
         /\ singleElectrons' = singleElectrons
         /\ bondOrder' = bondOrder
         /\ rafQueue' = rafQueue ]_vars

C4_Witness ==
  /\ last.kind = "A2B"
  /\ last.pre.charges[last.a] >= 0
  /\ last.pre.lonePairs[last.a] = 0
  /\ LastKey \in DOMAIN bondOrder
  /\ State = last.pre

\* C5: every bond order of the graph and every targetOrder of a transition
\* entry is an integer in 0..3.
C5_BondOrderBounds ==
  /\ \A k \in DOMAIN bondOrder : bondOrder[k] \in 0 .. 3
  /\ \A k \in DOMAIN bondTransitions :
       /\ bondTransitions[k].targetOrder \in 0 .. 3
       /\ bondTransitions[k].initialOrder \in 0 .. 3

\* a clamp was needed: "increase" on a triple bond, or "decrease" on order 0
C5_Witness ==
  \E k \in DOMAIN bondTransitions :
    /\ k \in DOMAIN bondOrder
    /\ bondTransitions[k].initialOrder = 3
    /\ bondTransitions[k].bondChange = "increase"
    /\ bondTransitions[k].targetOrder = 3

\* C6: for every atom with a known symbol and no active transition touching
\* it, 2*lonePairs + singleElectrons + totalBondOrder - ledgerCharge equals
\* valence(symbol), with totalBondOrder as calculateLonePairs computes it.
C6_ElectronAccounting ==
  \A i \in Atoms :
    LET atomSymbol == getAtomLabel(molecule)[i + 1]
    IN  (/\ atomSymbol \in DOMAIN valenceElectrons
         /\ \A k \in DOMAIN bondTransitions : i # k[1] /\ i # k[2])
        => 2 * getLonePairs(lonePairs, i)
             + getSingleElectron(singleElectrons, i)
             + totalBondOrder(atomSymbol, getBondOrdersForAtom(molecule, bondOrder, i),
                              getImplicitHydrogens(molecule, i)
                                + getExplicitHydrogens(molecule, bondOrder, i))
             - charges[i]
           = valenceElectrons[atomSymbol]

\* C7: while an entry exists for a pair the graph's order of the pair is the
\* entry's initialOrder, and a frame changes the order of a pair only by
\* deleting the pair's entry and writing its targetOrder.
C7_CommitOnlyAtCompletion ==
  /\ [](\A k \in DOMAIN bondTransitions :
          getBondOrder(bondOrder, k[1], k[2]) = bondTransitions[k].initialOrder)
  /\ [][ \A k \in DOMAIN bondOrder :
           (TickStep /\ bondOrder'[k] # bondOrder[k])
           => /\ k \in DOMAIN bondTransitions
              /\ k \notin DOMAIN bondTransitions'
              /\ bondOrder'[k] = bondTransitions[k].targetOrder ]_vars

\* a lone-pair->bond move was accepted on a bond of order < 3 that was quiet,
\* its transition is one frame from completing and the graph still holds the
\* order the move found
C7_Witness ==
  /\ last.kind = "A2B"
  /\ LastKey \in DOMAIN bondOrder
  /\ last.pre.lonePairs[last.a] > 0
  /\ last.pre.bondOrder[LastKey] < 3
  /\ LastKey \notin DOMAIN last.pre.bondTransitions
  /\ LastKey \in DOMAIN bondTransitions
  /\ bondTransitions[LastKey].progress = StepsToFull - 1
  /\ bondTransitions[LastKey].targetOrder = last.pre.bondOrder[LastKey] + 1
  /\ bondOrder[LastKey] = last.pre.bondOrder[LastKey]

\* the transition the last move started on key k, if it started one:
\* <<direction>> or <<>> (a bond->bond move whose first start threw never
\* reaches its second)
LastStarted(k) ==
  CASE last.kind = "B2A" /\ k = LastKey -> <<"decrease">>
    [] last.kind = "B2B" /\ k = LastKey -> <<"decrease">>
    [] last.kind = "B2B" /\ k = LastKey2
         /\ ~startBondTransition(last.pre, last.a, last.b, "decrease",
                                 "bond-to-bond").thrown
         -> <<"increase">>
    [] last.kind = "A2B" /\ k = LastKey
         /\ (last.pre.charges[last.a] < 0 \/ last.pre.lonePairs[last.a] > 0)
         -> <<"increase">>
    [] last.kind = "B2ASingle" /\ k = LastKey
         /\ getBondOrder(last.pre.bondOrder, last.a, last.b) > 0
         -> <<"decrease">>
    [] OTHER -> <<>>

\* C8: a transition started on a pair that has an active entry replaces the
\* entry: the new entry's initialOrder is the graph's order at the call and
\* its targetOrder the clamped neighbour of it; after the pair's entry is
\* gone the graph holds the newest targetOrder; and whenever a frame changes
\* a bond order it writes the targetOrder of the entry the map then holds.
C8_LastWriterWins ==
  /\ [](\A k \in DOMAIN bondOrder :
          (LastStarted(k) # <<>> /\ k \in DOMAIN last.pre.bondTransitions)
          => LET initial == last.pre.bondOrder[k]
                 target == IF LastStarted(k)[1] = "increase"
                           THEN Min(3, initial + 1) ELSE Max(0, initial - 1)
             IN  IF k \in DOMAIN bondTransitions
                 THEN /\ bondTransitions[k].initialOrder = initial
                      /\ bondTransitions[k].targetOrder = target
                      /\ bondTransitions[k].bondChange = LastStarted(k)[1]
                 ELSE bondOrder[k] = target)
  /\ [][ \A k \in DOMAIN bondOrder :
           (TickStep /\ bondOrder'[k] # bondOrder[k])
           => /\ k \in DOMAIN bondTransitions
              /\ bondOrder'[k] = bondTransitions[k].targetOrder ]_vars

\* a replacement whose target differs from the replaced entry's target has
\* completed
C8_Witness ==
  \E k \in DOMAIN bondOrder :
    /\ LastStarted(k) # <<>>
    /\ k \in DOMAIN last.pre.bondTransitions
    /\ last.pre.bondTransitions[k].targetOrder # bondOrder[k]
    /\ last.pre.bondTransitions[k].targetOrder # last.pre.bondOrder[k]
    /\ k \notin DOMAIN bondTransitions

\* C9: a frame advances every active entry by exactly one increment, the
\* entries created by a replacement included.
C9_OneStepPerFrame ==
  [][ TickStep =>
        \A k \in DOMAIN bondTransitions :
          IF k \in DOMAIN bondTransitions'
          THEN bondTransitions'[k].progress = bondTransitions[k].progress + 1
          ELSE bondTransitions[k].progress + 1 = StepsToFull ]_vars

\* C10: with frames delivered, every active entry is eventually removed; the
\* step that removes an entry is a frame and writes the entry's targetOrder
\* to the graph; a move never removes an entry, and a step that leaves a
\* pair's entry as it is leaves the pair's bond order as it is.
C10_CompletionLiveness ==
  /\ \A k \in Keys :
       (k \in DOMAIN bondTransitions) ~> (k \notin DOMAIN bondTransitions)
  /\ [][ \A k \in DOMAIN bondTransitions :
           /\ k \notin DOMAIN bondTransitions'
                => /\ TickStep
                   /\ getBondOrder(bondOrder', k[1], k[2])
                        = IF k \in DOMAIN bondOrder
                          THEN bondTransitions[k].targetOrder ELSE 0
           /\ (k \in DOMAIN bondTransitions'
               /\ bondTransitions'[k] = bondTransitions[k])
                => getBondOrder(bondOrder', k[1], k[2])
                     = getBondOrder(bondOrder, k[1], k[2]) ]_vars

\* an "increase" and a "decrease" started together have both completed
C10_Witness ==
  /\ last.kind = "B2B"
  /\ movesLeft = 0
  /\ DOMAIN bondTransitions = {}
  /\ rafQueue = <<>>
  /\ bondOrder # last.pre.bondOrder

\* ----------------------------------------------------------------- C11
\* An increase and then a decrease were started on the same bond, the
\* increase had completed when the decrease started, the decrease has
\* completed, and nothing else was started in between or since.
RoundTripDone ==
  /\ last.kind = "decrease"
  /\ last.prev.kind = "increase"
  /\ bondKey(last.prev.a, last.prev.b) = LastKey
  /\ LastKey \in DOMAIN bondOrder
  /\ LastKey \notin DOMAIN last.pre.bondTransitions
  /\ LastKey \notin DOMAIN bondTransitions

\* the bond's order before the increase was started
OriginalOrder == last.prev.pre.bondOrder[LastKey]

\* C11 (as claimed): an increase run to completion followed by a decrease
\* run to completion on the same bond returns the bond's order to its
\* original value, whatever that value was in 0 .. 3.
C11_RoundTrip == RoundTripDone => bondOrder[LastKey] = OriginalOrder

\* C11 (amended): the round trip returns the bond's order to its original
\* value when that value is 0, 1 or 2; a triple bond stays triple under the
\* increase and is left as a double bond by the decrease.
C11_RoundTripBelowTriple ==
  RoundTripDone =>
    bondOrder[LastKey] = IF OriginalOrder = 3 THEN 2 ELSE OriginalOrder

\* a round trip that started from order 0 has completed
C11_Witness == RoundTripDone /\ OriginalOrder = 0

\* ----------------------------------------------------------------- C12
\* the last operation was a direct start
Started == last.kind \in {"increase", "decrease"}

\* the order the graph held for the named pair when the last start was called
OrderAtCall == getBondOrder(last.pre.bondOrder, last.a, last.b)

\* the clamped target of the last start
ClampedTarget ==
  IF last.kind = "increase" THEN Min(3, OrderAtCall + 1)
  ELSE Max(0, OrderAtCall - 1)

\* C12: a start records as initialOrder the order the graph holds at the
\* call and as targetOrder min(3, initialOrder + 1) for an increase and
\* max(0, initialOrder - 1) for a decrease; once the entry is gone the bond
\* holds that target; an increase started on a triple bond has target 3 and
\* the bond holds 3 throughout, however often the start is repeated, and
\* the call that starts it ends without an exception.
C12_ClampedTarget ==
  /\ [](Started =>
        /\ LastKey \in DOMAIN bondTransitions =>
              /\ bondTransitions[LastKey].initialOrder = OrderAtCall
              /\ bondTransitions[LastKey].targetOrder = ClampedTarget
              /\ bondTransitions[LastKey].bondChange = last.kind
        /\ (LastKey \notin DOMAIN bondTransitions /\ LastKey \in DOMAIN bondOrder)
              => bondOrder[LastKey] = ClampedTarget
        /\ (last.kind = "increase" /\ OrderAtCall = 3)
              => ClampedTarget = 3 /\ bondOrder[LastKey] = 3)
  /\ [][ (/\ MoveStep
          /\ last'.kind = "increase"
          /\ getBondOrder(bondOrder, last'.a, last'.b) = 3)
         => ~thrown' ]_vars

\* ----------------------------------------------------------------- C13
\* C13: a radical-pair move on a pair whose bond order is > 0 raises the
\* single-electron count of each endpoint by exactly 1, creates one
\* "decrease" entry on the pair and queues one animate closure, and changes
\* no ledger entry; on a pair of order 0 (or without a bond) it changes no
\* single-electron count, ledger entry, transition entry or bond order.
C13_RadicalPair ==
  [][ LET a == last'.a
          b == last'.b
          K == bondKey(a, b)
          order == getBondOrder(bondOrder, a, b)
      IN  (MoveStep /\ last'.kind = "B2ASingle")
          => IF order > 0
             THEN /\ singleElectrons' =
                       MapSet(MapSet(singleElectrons, a,
                                     getSingleElectron(singleElectrons, a) + 1),
                              b, getSingleElectron(singleElectrons, b) + 1)
                  /\ K \in DOMAIN bondTransitions'
                  /\ bondTransitions'[K].bondChange = "decrease"
                  /\ bondTransitions'[K].targetOrder = order - 1
                  /\ \A k \in Keys \ {K} :
                       /\ (k \in DOMAIN bondTransitions')
                            = (k \in DOMAIN bondTransitions)
                       /\ k \in DOMAIN bondTransitions
                            => bondTransitions'[k] = bondTransitions[k]
                  /\ Len(rafQueue') = Len(rafQueue) + 1
                  /\ charges' = charges
                  /\ nanCharges' = nanCharges
             ELSE /\ singleElectrons' = singleElectrons
                  /\ charges' = charges
                  /\ nanCharges' = nanCharges
                  /\ bondTransitions' = bondTransitions
                  /\ rafQueue' = rafQueue
                  /\ bondOrder' = bondOrder
                  /\ lonePairs' = lonePairs ]_vars

\* a radical-pair move split a bond: both endpoints gained a single electron
C13_Witness ==
  /\ last.kind = "B2ASingle"
  /\ getBondOrder(last.pre.bondOrder, last.a, last.b) > 0
  /\ getSingleElectron(singleElectrons, last.a)
       = getSingleElectron(last.pre.singleElectrons, last.a) + 1
  /\ getSingleElectron(singleElectrons, last.b)
       = getSingleElectron(last.pre.singleElectrons, last.b) + 1
  /\ charges = last.pre.charges

\* a radical-pair move was invoked on a bond already reduced to order 0
C13_WitnessRejected ==
  /\ last.kind = "B2ASingle"
  /\ LastKey \in DOMAIN bondOrder
  /\ last.pre.bondOrder[LastKey] = 0
  /\ singleElectrons = last.pre.singleElectrons

\* ----------------------------------------------------------------- C14
\* C14: for every atom index without a ledger entry, getCharge returns the
\* number 0.
C14_LedgerReadDefault ==
  \A i \in Indices :
    chargesGet(State, i) = undefined => getCharge(State, i) = Number(0)

\* ----------------------------------------------------------------- C15
\* C15: the ledger never holds a non-integer value, and an updateCharge
\* (called directly or by the bond->atom move) for an index that has no
\* ledger entry leaves the ledger as it was.
C15_AdjustUnseeded ==
  /\ [](nanCharges = {})
  /\ [][ (/\ MoveStep
          /\ last'.kind \in {"updateCharge", "B2A"}
          /\ \E i \in {last'.a, last'.b} : chargesGet(State, i) = undefined)
         => (charges' = charges /\ nanCharges' = nanCharges) ]_vars

\* ----------------------------------------------------------------- C16
\* the state is the one the load left: no move has been invoked
AtLoad == last.kind = "none"

\* atom i is a neutral carbon with four single bonds
SaturatedCarbon(i) ==
  /\ getAtomLabel(molecule)[i + 1] = "C"
  /\ getFormalCharge(molecule)[i] = 0
  /\ Cardinality(ConnAtoms(bondOrder, i)) = 4
  /\ \A j \in ConnAtoms(bondOrder, i) : getBondOrder(bondOrder, i, j) = 1

\* C16: at load every neutral carbon with four single bonds has 0 lone
\* pairs and a stored single-electron count of 0.
C16_SaturatedCarbon ==
  AtLoad =>
    \A i \in AtomsOf(molecule) :
      SaturatedCarbon(i) =>
        /\ lonePairs[i] = 0
        /\ i \in DOMAIN singleElectrons
        /\ singleElectrons[i] = 0

\* ----------------------------------------------------------------- C17
\* the sum of the orders of the bonds of atom i, in halves (an aromatic
\* bond of order 0 counts 1.5)
BondOrderSum(i) ==
  SumHalves(getBondOrdersForAtom(molecule, bondOrder, i), ConnAtoms(bondOrder, i))

\* implicit + explicit hydrogens of atom i
HydrogenCount(i) ==
  getImplicitHydrogens(molecule, i) + getExplicitHydrogens(molecule, bondOrder, i)

\* lone pairs from a total bond order given in halves
PairsFrom(i, total) ==
  Max(0, JSFloorDiv(2 * valenceElectrons[getAtomLabel(molecule)[i + 1]] - total
                      + 2 * getFormalCharge(molecule)[i], 4))

KnownAtoms ==
  {i \in AtomsOf(molecule) : getAtomLabel(molecule)[i + 1] \in DOMAIN valenceElectrons}

\* atom i is a neutral oxygen with two single bonds
TwoBondOxygen(i) ==
  /\ getAtomLabel(molecule)[i + 1] = "O"
  /\ getFormalCharge(molecule)[i] = 0
  /\ Cardinality(ConnAtoms(bondOrder, i)) = 2
  /\ \A j \in ConnAtoms(bondOrder, i) : getBondOrder(bondOrder, i, j) = 1

OxygenPairs ==
  \A i \in AtomsOf(molecule) :
    TwoBondOxygen(i) =>
      lonePairs[i] = 2 /\ getSingleElectron(singleElectrons, i) = 0

\* C17 (as claimed): at load the lone pairs of every atom of a known element
\* are max(0, floor((valence - total + charge) / 2)), where total is the
\* bond-order sum plus the hydrogen count, the hydrogen count being left out
\* exactly when the atom is not carbon and has at least one implicit
\* hydrogen; a neutral oxygen with two single bonds has 2 lone pairs and 0
\* single electrons.
C17_HydrogenExclusion ==
  AtLoad =>
    /\ \A i \in KnownAtoms :
         lonePairs[i] =
           PairsFrom(i, IF getAtomLabel(molecule)[i + 1] # "C"
                           /\ getImplicitHydrogens(molecule, i) > 0
                        THEN BondOrderSum(i)
                        ELSE BondOrderSum(i) + 2 * HydrogenCount(i))
    /\ OxygenPairs

\* C17 (amended): the same, the hydrogen count being left out exactly when
\* the atom is not carbon and its implicit + explicit hydrogen count is at
\* least 1.
C17_CombinedHydrogenExclusion ==
  AtLoad =>
    /\ \A i \in KnownAtoms :
         lonePairs[i] =
           PairsFrom(i, IF getAtomLabel(molecule)[i + 1] # "C"
                           /\ HydrogenCount(i) > 0
                        THEN BondOrderSum(i)
                        ELSE BondOrderSum(i) + 2 * HydrogenCount(i))
    /\ OxygenPairs

\* a loaded molecule has a neutral oxygen with two single bonds, at least one
\* of them to an explicit hydrogen and no implicit hydrogen, and 2 lone pairs
C17_Witness ==
  /\ AtLoad
  /\ \E i \in AtomsOf(molecule) :
       /\ TwoBondOxygen(i)
       /\ getExplicitHydrogens(molecule, bondOrder, i) > 0
       /\ getImplicitHydrogens(molecule, i) = 0
       /\ lonePairs[i] = 2

\* ----------------------------------------------------------------- C18
\* the accounting of the drawn atom has run
Calculated == last.kind = "calculateLonePairs"

\* valence - totalBondOrder + formalCharge of the drawn atom
NonBonding ==
  valenceElectrons[last.atomSymbol]
    - totalBondOrder(last.atomSymbol, last.bondOrders, last.implicitHydrogens)
    + last.formalCharge

\* C18: for an atom of a known element the stored single-electron count is
\* the non-negative remainder of nonBondingElectrons on floored division by
\* 2, hence 0 or 1, also when nonBondingElectrons is negative.
C18_NonNegativeRemainder ==
  (Calculated /\ last.atomSymbol \in DOMAIN valenceElectrons)
    => /\ 0 \in DOMAIN singleElectrons
       /\ singleElectrons[0] = NonBonding % 2
       /\ singleElectrons[0] \in {0, 1}

\* ----------------------------------------------------------------- C19
\* C19: for an atom whose symbol is not in the valence table the accounting
\* yields 0 lone pairs and 0 single electrons, whatever its charge, bond
\* orders and hydrogen count.
C19_UnknownElement ==
  (Calculated /\ last.atomSymbol \notin DOMAIN valenceElectrons)
    => /\ lonePairs[0] = 0
       /\ getSingleElectron(singleElectrons, 0) = 0

\* the accounting has run for a charged atom of an unknown element with
\* bonds and hydrogens
C19_Witness ==
  /\ Calculated
  /\ last.atomSymbol \notin DOMAIN valenceElectrons
  /\ last.formalCharge # 0
  /\ Len(last.bondOrders) > 1
  /\ last.implicitHydrogens > 0
  /\ lonePairs[0] = 0

\* ----------------------------------------------------------------- C20
\* the state without the order in which the closures are queued: how many
\* closures are queued for each key (a closure acts through its key and
\* through setBondOrder, which takes the two atoms in either order), and
\* without the record of how the runs ended (an exception of a frame
\* callback goes to the browser and is kept nowhere in the program)
QueueBag(q) ==
  [k \in {q[i].key : i \in DOMAIN q} |->
     Cardinality({i \in DOMAIN q : q[i].key = k})]

Unordered(S) == [S EXCEPT !.rafQueue = QueueBag(@), !.thrown = FALSE]

Reverse(q) == [i \in DOMAIN q |-> q[Len(q) + 1 - i]]

\* queued closures of two different bond pairs that both have an entry
IndependentClosures ==
  {cd \in {<<rafQueue[i], rafQueue[j]>> : i \in DOMAIN rafQueue,
                                          j \in DOMAIN rafQueue} :
     /\ cd[1].key # cd[2].key
     /\ cd[1].key \in DOMAIN bondTransitions
     /\ cd[2].key \in DOMAIN bondTransitions}

\* a run of one pair's closure leaves the other pair's entry and bond order
\* as they were, the two closures commute, and a frame of two or more
\* closures gives the same state when it is run in reverse order
IndependentRuns ==
  /\ \A cd \in IndependentClosures :
       LET c == cd[1]
           d == cd[2]
           S1 == animate(State, c)
       IN  /\ d.key \in DOMAIN S1.bondTransitions
           /\ S1.bondTransitions[d.key] = bondTransitions[d.key]
           /\ getBondOrder(S1.bondOrder, d.atom1, d.atom2)
                = getBondOrder(bondOrder, d.atom1, d.atom2)
           /\ Unordered(animate(S1, d))
                = Unordered(animate(animate(State, d), c))
  /\ Len(rafQueue) > 1
       => Unordered(Frame(State))
            = Unordered(Frame([State EXCEPT !.rafQueue = Reverse(@)]))

\* C20: always, when two different bond pairs have active transitions, a run
\* of one pair's closure (advancing or completing it) leaves the other pair's
\* entry and bond order as they were, running the two closures in either
\* order gives the same state, and so does a whole frame run in reverse order.
C20_Independence == []IndependentRuns

\* two pairs are active, the closure of one completes its transition on its
\* next run and changes that pair's bond order, the other's does not complete
C20_Witness ==
  \E cd \in IndependentClosures :
    /\ bondTransitions[cd[1].key].progress = StepsToFull - 1
    /\ bondTransitions[cd[2].key].progress < StepsToFull - 1
    /\ animate(State, cd[1]).bondOrder # bondOrder

\* ----------------------------------------------------------------- C21
\* a transition entry without the order in which its atoms were given
Unoriented(entry) == [entry EXCEPT !.atom1 = 0, !.atom2 = 0]

\* starting on (a, b) and on (b, a) writes the same entry under the same key
SameEntryStarted(a, b, bondChange) ==
  LET X == startBondTransition(State, a, b, bondChange, "direct")
      Y == startBondTransition(State, b, a, bondChange, "direct")
  IN  /\ DOMAIN X.bondTransitions = DOMAIN Y.bondTransitions
      /\ \A k \in DOMAIN X.bondTransitions :
           Unoriented(X.bondTransitions[k]) = Unoriented(Y.bondTransitions[k])
      /\ X.bondOrder = Y.bondOrder

\* the pairs of different atoms, each taken once (the statements of C21 are
\* symmetric in a and b)
UnorderedPairs == {p \in Pairs : p[1] < p[2]}

\* C21: for all atoms a, b: getBondOrder(a, b) = getBondOrder(b, a);
\* setBondOrder(a, b, o) and setBondOrder(b, a, o) write the same bond;
\* startBondTransition (in every state in which a call can still be made)
\* and getBondTransitionProgress address the same entry with (a, b) and with
\* (b, a); the map of transitions never holds two entries for one unordered
\* pair.
C21_ArgumentOrder ==
  /\ \A p \in UnorderedPairs :
       /\ getBondOrder(bondOrder, p[1], p[2]) = getBondOrder(bondOrder, p[2], p[1])
       /\ \A o \in 0 .. 3 :
            setBondOrder(bondOrder, p[1], p[2], o)
              = setBondOrder(bondOrder, p[2], p[1], o)
       /\ getBondTransitionProgress(State, p[1], p[2])
            = getBondTransitionProgress(State, p[2], p[1])
       /\ movesLeft > 0
            => \A bondChange \in {"increase", "decrease"} :
                 SameEntryStarted(p[1], p[2], bondChange)
  /\ \A k \in DOMAIN bondTransitions :
       <<k[2], k[1]>> \in DOMAIN bondTransitions => k[1] = k[2]

\* a move named a bond with the higher atom first and its entry is read
\* back with the atoms in either order
C21_Witness ==
  /\ last.kind = "B2A"
  /\ last.a > last.b
  /\ getBondOrder(last.pre.bondOrder, last.a, last.b) > 0
  /\ getBondTransitionProgress(State, last.a, last.b) # <<>>
  /\ getBondTransitionProgress(State, last.b, last.a) # <<>>

\* ----------------------------------------------------------------- C22
\* C22: in the state a direct start leaves when it returns, before any
\* frame, the entry of the named pair exists with progress 0.
C22_InitialProgress ==
  [][ (MoveStep /\ last'.kind \in {"increase", "decrease"})
      => LET K == bondKey(last'.a, last'.b)
         IN  /\ K \in DOMAIN bondTransitions'
             /\ bondTransitions'[K].progress = 0 ]_vars

\* ----------------------------------------------------------------- C23
\* C23: every entry in the map has 0 <= progress < 1 (in increments:
\* progress < StepsToFull), and over a frame the progress of an entry that
\* stays in the map does not decrease.
C23_EntryInvariant ==
  /\ [](\A k \in DOMAIN bondTransitions :
          /\ 0 <= bondTransitions[k].progress
          /\ bondTransitions[k].progress < StepsToFull)
  /\ [][ TickStep
         => \A k \in DOMAIN bondTransitions \cap DOMAIN bondTransitions' :
              bondTransitions'[k].progress >= bondTransitions[k].progress ]_vars

\* frames have advanced an entry to the last value below full progress
C23_Witness ==
  \E k \in DOMAIN bondTransitions :
    /\ bondTransitions[k].progress = StepsToFull - 1
    /\ \E i \in DOMAIN rafQueue : rafQueue[i].key = k

\* ----------------------------------------------------------------- C24
\* C24: a lone-pair->bond move by a donor that satisfies the precondition,
\* on a bond that already has order 3, changes no bond order, no ledger
\* entry, no lone-pair count and not the set of pairs with an active entry.
C24_TripleBondNoOp ==
  [][ (/\ MoveStep
       /\ last'.kind = "A2B"
       /\ getBondOrder(bondOrder, last'.a, last'.b) = 3
       /\ (charges[last'.a] < 0 \/ lonePairs[last'.a] > 0))
      => /\ bondOrder' = bondOrder
         /\ charges' = charges
         /\ lonePairs' = lonePairs
         /\ DOMAIN bondTransitions' = DOMAIN bondTransitions ]_vars

\* ----------------------------------------------------------------- C25
\* C25: a bond->atom move "a-b" on a bond whose order is 0 is not rejected:
\* it creates a "decrease" entry with initialOrder 0 and targetOrder 0,
\* raises a's charge by 1 and lowers b's by 1, and the bond order is 0
\* while the transition runs and after it has completed.
C25_BondToAtomUnconditional ==
  /\ [][ LET a == last'.a
             b == last'.b
             K == bondKey(a, b)
         IN  (/\ MoveStep
              /\ last'.kind = "B2A"
              /\ K \in DOMAIN bondOrder
              /\ bondOrder[K] = 0)
             => /\ K \in DOMAIN bondTransitions'
                /\ bondTransitions'[K].bondChange = "decrease"
                /\ bondTransitions'[K].initialOrder = 0
                /\ bondTransitions'[K].targetOrder = 0
                /\ charges' = [charges EXCEPT ![a] = @ + 1, ![b] = @ - 1] ]_vars
  /\ []((/\ last.kind = "B2A"
         /\ LastKey \in DOMAIN bondOrder
         /\ last.pre.bondOrder[LastKey] = 0)
        => bondOrder[LastKey] = 0)

\* ----------------------------------------------------------------- C26
\* the pairs of atoms without a bond
Unbonded == {p \in Pairs : bondKey(p[1], p[2]) \notin DOMAIN bondOrder}

\* C26: for a pair of atoms without a bond getBondOrder returns 0 and
\* setBondOrder leaves the graph as it is; the graph never gains a bond,
\* whatever transitions complete.
C26_BondNotFound ==
  /\ \A p \in Unbonded :
       /\ getBondOrder(bondOrder, p[1], p[2]) = 0
       /\ \A o \in 0 .. 3 : setBondOrder(bondOrder, p[1], p[2], o) = bondOrder
  /\ DOMAIN bondOrder = DOMAIN InitialBonds(molecule)

\* an increase towards order 1 was started on a pair without a bond, it has
\* completed, and the pair still has no bond
C26_Witness ==
  /\ last.kind = "A2B"
  /\ <<last.a, last.b>> \in Unbonded
  /\ last.pre.lonePairs[last.a] > 0
  /\ charges[last.a] = last.pre.charges[last.a] + 1
  /\ LastKey \notin DOMAIN bondTransitions
  /\ rafQueue = <<>>
  /\ getBondOrder(bondOrder, last.a, last.b) = 0

\* ----------------------------------------------------------------- C27
\* C27: the step of a bond->atom or bond->bond move leaves the ledger with
\* the move's whole shift applied and the move's entries created; a frame,
\* the completing one included, changes no ledger entry, no lone-pair count
\* and no single-electron count.  (getBondTransitionProgress is a read: it
\* returns the entry and assigns nothing.)
C27_LedgerTiming ==
  /\ [][ (MoveStep /\ last'.kind \in {"B2A", "B2B"})
         => /\ charges' = [charges EXCEPT ![last'.a] = @ + 1,
                                          ![last'.c] = @ - 1]
            /\ bondKey(last'.a, last'.b) \in DOMAIN bondTransitions'
            /\ bondKey(last'.b, last'.c) \in DOMAIN bondTransitions'
                 \/ last'.b = last'.c ]_vars
  /\ [][ TickStep
         => /\ charges' = charges
            /\ nanCharges' = nanCharges
            /\ lonePairs' = lonePairs
            /\ singleElectrons' = singleElectrons ]_vars

\* ----------------------------------------------------------------- C28
\* C28: the ledger holds only integers and their sum equals the sum of the
\* formal charges of the graph as it was parsed.
C28_ChargeConserved ==
  /\ nanCharges = {}
  /\ DOMAIN charges = AtomsOf(molecule)
  /\ SumOver(charges, DOMAIN charges)
       = SumOver(getFormalCharge(molecule), AtomsOf(molecule))

\* two moves have been invoked, all transitions have completed, and the
\* ledger differs from the formal charges
C28_Witness ==
  /\ movesLeft = MaxMoves - 2
  /\ bondTransitions = [k \in {} |-> 0]
  /\ last.pre.charges # charges
  /\ last.pre.charges # InitialCharges(molecule)
  /\ charges # InitialCharges(molecule)

\* ----------------------------------------------------------------- C29
\* no entry and no queued closure for key k in state S
Quiet(S, k) ==
  /\ k \notin DOMAIN S.bondTransitions
  /\ \A i \in DOMAIN S.rafQueue : S.rafQueue[i].key # k

\* The last two moves were the same bond->atom move "a-b" on a bond of
\* order >= 2 that was quiet before the first of them; everything has
\* completed.
TwoMovesDone ==
  /\ last.kind = "B2A"
  /\ last.prev.kind = "B2A"
  /\ last.prev.a = last.a
  /\ last.prev.b = last.b
  /\ LastKey \in DOMAIN bondOrder
  /\ last.prev.pre.bondOrder[LastKey] >= 2
  /\ Quiet(last.prev.pre, LastKey)
  /\ Quiet(State, LastKey)

\* C29: after two bond->atom moves "a-b" on a bond of order k >= 2, once
\* all transitions have completed, the bond order has gone down by 2, as
\* many units as a's charge has gone up and b's has gone down, whether the
\* second move was issued before or after the first one's transition
\* completed.
C29_ChargeBondAgreement ==
  TwoMovesDone =>
    /\ charges[last.a] = last.prev.pre.charges[last.a] + 2
    /\ charges[last.b] = last.prev.pre.charges[last.b] - 2
    /\ bondOrder[LastKey] = last.prev.pre.bondOrder[LastKey] - 2

\* ----------------------------------------------------------------- C30
\* the program state a step leaves is S
Leaves(S) == State' = [S EXCEPT !.thrown = FALSE]

\* the state with the molecule behind moleculeIndex in its own fields
Addressed(S, moleculeIndex) == Swap(S, idOf(S, moleculeIndex))

\* C30: on a molecule that was added, every trigger returns normally and
\* leaves the state its move leaves on the addressed molecule: B2A the
\* bond->atom move, B2B the bond->bond move, A2B the lone-pair->bond move,
\* B2ASingle the radical-pair move.
C30_Dispatch ==
  [][ (MoveStep /\ hasMolecule(State, last'.moleculeIndex))
      => LET i == idOf(State, last'.moleculeIndex)
             S == Addressed(State, last'.moleculeIndex)
         IN  /\ last'.outcome = "returned"
             /\ last'.kind = "B2A"
                  => Leaves(Swap(moveElectronPairFromBondToAtom(
                                   S, last'.a, last'.b), i))
             /\ last'.kind = "B2B"
                  => Leaves(Swap(moveElectronsBetweenBonds(
                                   S, last'.a, last'.b, last'.c), i))
             /\ last'.kind = "A2B"
                  => Leaves(Swap(moveElectronPairFromAtomToBond(
                                   S, last'.a, last'.b), i))
             /\ last'.kind = "B2ASingle"
                  => Leaves(Swap(B2ASingle(S, last'.a, last'.b), i)) ]_vars

\* ----------------------------------------------------------------- C31
\* the step is a click on the named button
ClickStep(button) ==
  /\ MoveStep
  /\ last'.kind = button

\* the page and the molecule are left as they were
NothingChanged ==
  /\ Page' = Page
  /\ State' = State

\* the counters are in step with each other and the buttons show them
StepNavigation ==
  /\ currentStep \in 0 .. Len(steps)
  /\ Len(stateHistory) = currentStep + 1
  /\ previousButton <=> currentStep = 0
  /\ nextButton <=> currentStep = Len(steps)

====
